---- MODULE Spec2Model ----
(***************************************************************************)
(* A model of the CRDT structures of yorkie-rust-sdk: the logical clock    *)
(* (ActorID, Ticket), the replicated hashtable (RHT) and the replicated    *)
(* priority-queue map (RHTPriorityQueueMap).                               *)
(*                                                                         *)
(* Strings are sequences of byte values ("a" is <<97>>), Option<T> is a    *)
(* sequence of length 0 (None) or 1 (Some), and an Rc<RefCell<Node>> is an *)
(* address into a heap of nodes (a function from addresses to records):    *)
(* two maps that hold the same Rc hold the same address.                   *)
(***************************************************************************)
EXTENDS Integers, Sequences, FiniteSets, TLC

VARIABLES
    steps,      \* the number of calls made so far
    rht,        \* the RHT under test (SpecRHT)
    ret,        \* the last call on it: its name, arguments and return value
    ops,        \* the set of operations handed to the replicas
    applied,    \* per replica, the operations it has applied at least once
    rhtReplica, \* per replica, its RHT (SpecRHTReplay, SpecRHTConv)
    pq,         \* the RHTPriorityQueueMap under test (SpecPQ)
    pqRet,      \* the last call on it
    pqReplica,  \* per replica, its RHTPriorityQueueMap (SpecPQConv)
    tk,         \* the three tickets under comparison (SpecTicket)
    tkRet,      \* the last call on them
    elems,      \* the elements alive, by address (SpecElement)
    handles,    \* the elements the caller holds: the source, then its copies
    elRet,      \* the last call on an element
    llrb,       \* the llrb::Tree under test (SpecLLRB)
    llrbRet,    \* the last call on it
    splay,      \* the splay::Tree under test (SpecSplay)
    splayRet,   \* the last call on it
    docKey,     \* the Key parsed last, if any (SpecKey)
    keyRet,     \* the last call on Key
    cli,        \* the Client under test (SpecClient)
    cliRet      \* the last call on it

elemVars == <<elems, handles, elRet>>
llrbVars == <<llrb, llrbRet>>
splayVars == <<splay, splayRet>>
keyVars == <<docKey, keyRet>>
cliVars == <<cli, cliRet>>

vars == <<steps, rht, ret, ops, applied, rhtReplica, pq, pqRet, pqReplica, tk, tkRet,
          elemVars, llrbVars, splayVars, keyVars, cliVars>>

----------------------------------------------------------------------------
(* Bounds of the model. *)

\* the number of calls made on the structure under test
MaxSteps == 4
\* the size of a set of inserts replayed on one RHT
MaxReplayOps == 3
\* the size of a set of operations delivered to two replicas
MaxOps == 2
\* the number of calls made on the RHTPriorityQueueMap under test
MaxPQSteps == 4
\* the number of calls made on elements, and of elements the caller holds
MaxElementSteps == 3
MaxHandles == 2
\* the number of calls made on the llrb::Tree under test
MaxLLRBSteps == 4
\* the number of calls made on the splay::Tree under test, and of its nodes
MaxSplaySteps == 3
MaxSplayNodes == 3
\* the length of a combined key, and the number of calls made on Key
MaxKeyLen == 3
MaxKeySteps == 2
\* the number of calls made on the Client under test
MaxClientSteps == 3
\* the greatest lamport and the greatest delimiter of the tickets compared
MaxLamport == 1
MaxDelimiter == 1

----------------------------------------------------------------------------
(* Option<T> *)

None == <<>>
Some(x) == <<x>>
IsSome(o) == o # <<>>
Unwrap(o) == o[1]

(* Strings as byte sequences; "" is the empty sequence. *)
EmptyString == <<>>

\* Ordering values of std::cmp::Ordering
Less == "Less"
Equal == "Equal"
Greater == "Greater"

\* cmp of two integers (u8, u32, u64, usize)
IntCmp(x, y) == IF x < y THEN Less ELSE IF x > y THEN Greater ELSE Equal

----------------------------------------------------------------------------
(* document/time/actor_id.rs *)

ACTOR_ID_SIZE == 12

\* ActorID::from_hex("0000000000abcdef01234567") and
\* ActorID::from_hex("0123456789abcdef01234567"), the ids of the tests
ActorLow  == <<0, 0, 0, 0, 0, 171, 205, 239, 1, 35, 69, 103>>
ActorHigh == <<1, 35, 69, 103, 137, 171, 205, 239, 1, 35, 69, 103>>
Actors == {ActorLow, ActorHigh}

\* ActorID::compare: the first unequal byte decides, else the lengths
ActorIDCompare(a, b) ==
    LET diff == {i \in 1..ACTOR_ID_SIZE : a[i] # b[i]}
    IN  IF diff = {}
        THEN IntCmp(Len(a), Len(b))
        ELSE LET i == CHOOSE j \in diff : \A k \in diff : j <= k
             IN  IntCmp(a[i], b[i])

----------------------------------------------------------------------------
(* document/time/ticket.rs *)

\* Ticket::new
NewTicket(lamport, delimiter, actor_id) ==
    [lamport |-> lamport, delimiter |-> delimiter, actor_id |-> actor_id]

\* The tickets the operations carry, in ascending order: the second differs
\* from the first by its delimiter, the third by its actor, the fourth by its
\* lamport, so that every level of Ticket::cmp decides some pair.
Tickets ==
    {NewTicket(0, 0, ActorLow), NewTicket(0, 1, ActorLow),
     NewTicket(0, 0, ActorHigh), NewTicket(1, 0, ActorLow)}

\* an id below ActorHigh by its first byte and above it by its second
ActorMixed == <<0, 255, 0, 0, 0, 0, 0, 0, 0, 0, 0, 0>>

\* every ticket within the bounds, of three actors
TicketUniverse ==
    {NewTicket(l, d, a) : l \in 0..MaxLamport, d \in 0..MaxDelimiter,
                          a \in Actors \cup {ActorMixed}}

\* a mutant of TicketCmp: the delimiter is not compared
TicketCmpIgnoresDelimiter(a, b) ==
    IF IntCmp(a.lamport, b.lamport) # Equal
    THEN IntCmp(a.lamport, b.lamport)
    ELSE ActorIDCompare(a.actor_id, b.actor_id)

\* a mutant of TicketCmp: the delimiter is compared before the actor_id
TicketCmpDelimiterFirst(a, b) ==
    IF IntCmp(a.lamport, b.lamport) # Equal
    THEN IntCmp(a.lamport, b.lamport)
    ELSE IF IntCmp(a.delimiter, b.delimiter) # Equal
         THEN IntCmp(a.delimiter, b.delimiter)
         ELSE ActorIDCompare(a.actor_id, b.actor_id)

\* Ticket::cmp: lamport, then actor_id, then delimiter
TicketCmp(a, b) ==
    IF IntCmp(a.lamport, b.lamport) # Equal
    THEN IntCmp(a.lamport, b.lamport)
    ELSE IF ActorIDCompare(a.actor_id, b.actor_id) # Equal
         THEN ActorIDCompare(a.actor_id, b.actor_id)
         ELSE IF IntCmp(a.delimiter, b.delimiter) # Equal
              THEN IntCmp(a.delimiter, b.delimiter)
              ELSE Equal

\* Ticket::after
After(a, b) == TicketCmp(a, b) = Greater

----------------------------------------------------------------------------
(* Small helpers on functions used as HashMap. *)

\* HashMap::insert: the entry for k is created or replaced
MapPut(m, k, v) == [x \in DOMAIN m \cup {k} |-> IF x = k THEN v ELSE m[x]]

EmptyMap == [x \in {} |-> 0]

\* the smallest address not in use: a fresh Rc allocation
FreshAddr(heap) == CHOOSE a \in 1..(Cardinality(DOMAIN heap) + 1) : a \notin DOMAIN heap

\* the addresses a map holds
Range(m) == {m[x] : x \in DOMAIN m}

----------------------------------------------------------------------------
(* document/json/rht.rs *)

Keys == {<<98>>, <<97, 98>>}          \* "b", "ab"
Values == {EmptyString, <<49>>}       \* "", "1"

\* RHTNode::new
NewRHTNode(key, val, updated_at) ==
    [key |-> key, val |-> val, updated_at |-> updated_at, removed_at |-> None]

\* RHTNode::remove
RHTNodeRemove(node, removed_at) ==
    IF IsSome(node.removed_at)
    THEN IF After(removed_at, Unwrap(node.removed_at))
         THEN [node EXCEPT !.removed_at = Some(removed_at)]
         ELSE node
    ELSE [node EXCEPT !.removed_at = Some(removed_at)]

\* a mutant of RHTNodeIsRemoved: no node counts as removed
RHTNodeNeverRemoved(node) == FALSE

\* RHTNode::is_removed
RHTNodeIsRemoved(node) == IF node.removed_at = None THEN FALSE ELSE TRUE

\* RHT::new
NewRHT ==
    [nodes |-> EmptyMap, node_map_by_key |-> EmptyMap,
     node_map_by_created_at |-> EmptyMap]

\* an Rc whose last reference is dropped frees its node
DropUnreferenced(t) ==
    LET live == Range(t.node_map_by_key) \cup Range(t.node_map_by_created_at)
    IN  [t EXCEPT !.nodes = [a \in live |-> t.nodes[a]]]

\* RHT::insert_exec
RHTInsertExec(t, key, val, executed_at) ==
    LET addr == FreshAddr(t.nodes)
    IN  DropUnreferenced(
            [nodes |-> MapPut(t.nodes, addr, NewRHTNode(key, val, executed_at)),
             node_map_by_key |-> MapPut(t.node_map_by_key, key, addr),
             node_map_by_created_at |->
                 MapPut(t.node_map_by_created_at, executed_at, addr)])

\* a mutant of RHTInsert: the first insert of a key wins
RHTInsertFirstWins(t, key, val, executed_at) ==
    IF key \in DOMAIN t.node_map_by_key
    THEN t
    ELSE RHTInsertExec(t, key, val, executed_at)

\* a mutant of RHTInsert: the last call wins whatever its ticket
RHTInsertLastCallWins(t, key, val, executed_at) ==
    RHTInsertExec(t, key, val, executed_at)

\* RHT::insert
RHTInsert(t, key, val, executed_at) ==
    IF key \in DOMAIN t.node_map_by_key
    THEN IF After(executed_at, t.nodes[t.node_map_by_key[key]].updated_at)
         THEN RHTInsertExec(t, key, val, executed_at)
         ELSE t
    ELSE RHTInsertExec(t, key, val, executed_at)

\* RHT::get
RHTGet(t, key) ==
    IF key \in DOMAIN t.node_map_by_key
    THEN LET node == t.nodes[t.node_map_by_key[key]]
         IN  IF RHTNodeIsRemoved(node) THEN EmptyString ELSE node.val
    ELSE EmptyString

\* RHT::has
RHTHas(t, key) ==
    IF key \in DOMAIN t.node_map_by_key
    THEN ~RHTNodeIsRemoved(t.nodes[t.node_map_by_key[key]])
    ELSE FALSE

\* a mutant of RHTRemove: an older removal overwrites a newer tombstone
RHTRemoveAnyTicket(t, key, executed_at) ==
    IF key \in DOMAIN t.node_map_by_key
    THEN [t EXCEPT !.nodes[t.node_map_by_key[key]].removed_at = Some(executed_at)]
    ELSE t

\* RHT::remove, the table it leaves
RHTRemove(t, key, executed_at) ==
    IF key \in DOMAIN t.node_map_by_key
    THEN LET addr == t.node_map_by_key[key]
             node == t.nodes[addr]
         IN  IF IsSome(node.removed_at)
             THEN IF After(executed_at, Unwrap(node.removed_at))
                  THEN [t EXCEPT !.nodes[addr] = RHTNodeRemove(node, executed_at)]
                  ELSE t
             ELSE [t EXCEPT !.nodes[addr] = RHTNodeRemove(node, executed_at)]
    ELSE t

\* a mutant of RHTRemoveResult: the value is returned for every known key
RHTRemoveResultAlwaysValue(t, key, executed_at) ==
    IF key \in DOMAIN t.node_map_by_key
    THEN t.nodes[t.node_map_by_key[key]].val
    ELSE EmptyString

\* RHT::remove, the string it returns
RHTRemoveResult(t, key, executed_at) ==
    IF key \in DOMAIN t.node_map_by_key
    THEN LET node == t.nodes[t.node_map_by_key[key]]
         IN  IF IsSome(node.removed_at)
             THEN IF After(executed_at, Unwrap(node.removed_at))
                  THEN node.val
                  ELSE EmptyString
             ELSE node.val
    ELSE EmptyString

\* RHT::elements: every entry of node_map_by_key, with its value
RHTElements(t) ==
    [k \in DOMAIN t.node_map_by_key |-> t.nodes[t.node_map_by_key[k]].val]

\* RHT::clone: every entry of node_map_by_key, in the order keys of the
\* iteration, is inserted into a new table with its key, value and updated_at
RECURSIVE RHTClone(_, _)
RHTClone(t, keys) ==
    IF keys = <<>>
    THEN NewRHT
    ELSE LET node == t.nodes[t.node_map_by_key[keys[Len(keys)]]]
         IN  RHTInsert(RHTClone(t, SubSeq(keys, 1, Len(keys) - 1)),
                       node.key, node.val, node.updated_at)

\* str::cmp: byte-wise lexicographic order, a proper prefix first
StrLess(a, b) ==
    \E i \in 1..(Len(a) + 1) :
        /\ \A j \in 1..(i - 1) : j <= Len(b) /\ a[j] = b[j]
        /\ \/ i = Len(a) + 1 /\ Len(b) >= i
           \/ i <= Len(a) /\ i <= Len(b) /\ a[i] < b[i]

\* keys.sort(): the keys in ascending order
RECURSIVE SortedKeys(_)
SortedKeys(S) ==
    IF S = {}
    THEN <<>>
    ELSE LET least == CHOOSE k \in S : \A o \in S \ {k} : StrLess(k, o)
         IN  <<least>> \o SortedKeys(S \ {least})

\* the loop of to_string: "," before every pair but the first, then key:value
RECURSIVE RenderPairs(_, _, _)
RenderPairs(keys, members, i) ==
    IF i > Len(keys)
    THEN <<>>
    ELSE (IF i > 1 THEN <<44>> ELSE <<>>)
         \o keys[i] \o <<58>> \o members[keys[i]]
         \o RenderPairs(keys, members, i + 1)

\* RHT::to_string
RHTToString(t) ==
    LET members == RHTElements(t)
        keys == SortedKeys(DOMAIN members)
    IN  <<123>> \o RenderPairs(keys, members, 1) \o <<125>>

----------------------------------------------------------------------------
(* document/json/rht_pq_map.rs *)

\* the u32 values the elements carry
ElementValues == {1, 2}

\* MockElement::new, the Element implementation of the tests
NewElement(value, created_at) ==
    [value |-> value, created_at |-> created_at, moved_at |-> None,
     removed_at |-> None]

Elements == {NewElement(v, t) : v \in ElementValues, t \in Tickets}

\* a mutant of ElementRemoveResult: the ticket is not compared with the
\* creation ticket
ElementRemoveResultAnyTicket(e, ticket) ==
    IF IsSome(e.removed_at)
    THEN After(ticket, Unwrap(e.removed_at))
    ELSE TRUE

\* MockElement::remove, its return value
ElementRemoveResult(e, ticket) ==
    IF After(ticket, e.created_at)
    THEN IF IsSome(e.removed_at)
         THEN After(ticket, Unwrap(e.removed_at))
         ELSE TRUE
    ELSE FALSE

\* a mutant of ElementRemove: an existing tombstone is not consulted
ElementRemoveIgnoresTombstone(e, ticket) ==
    IF After(ticket, e.created_at)
    THEN [e EXCEPT !.removed_at = Some(ticket)]
    ELSE e

\* MockElement::remove, the element it leaves
ElementRemove(e, ticket) ==
    IF ElementRemoveResult(e, ticket)
    THEN [e EXCEPT !.removed_at = Some(ticket)]
    ELSE e

\* RHTPQMapNode::new
NewPQNode(key, element) == [key |-> key, element |-> element]

\* RHTPQMapNode::remove
PQNodeRemove(node, ticket) ==
    [node EXCEPT !.element = ElementRemove(node.element, ticket)]

\* RHTPQMapNode::is_removed
PQNodeIsRemoved(node) == IF IsSome(node.element.removed_at) THEN TRUE ELSE FALSE

\* Ord for RHTPQMapNode: Greater when created after the other, else Less
PQNodeCmp(a, b) ==
    IF After(a.element.created_at, b.element.created_at) THEN Greater ELSE Less

\* PartialOrd::le as derived from partial_cmp
PQNodeLe(a, b) == PQNodeCmp(a, b) \in {Less, Equal}

\* BinaryHeap::sift_up on the 0-based position pos of data
RECURSIVE SiftUp(_, _, _)
SiftUp(nodes, data, pos) ==
    IF pos = 0
    THEN data
    ELSE LET parent == (pos - 1) \div 2
         IN  IF PQNodeLe(nodes[data[pos + 1]], nodes[data[parent + 1]])
             THEN data
             ELSE SiftUp(nodes,
                         [data EXCEPT ![pos + 1] = data[parent + 1],
                                      ![parent + 1] = data[pos + 1]],
                         parent)

\* BinaryHeap::push
HeapPush(nodes, data, addr) == SiftUp(nodes, Append(data, addr), Len(data))

\* RHTPriorityQueueMap::new
NewPQ ==
    [nodes |-> EmptyMap, node_queue_map_by_key |-> EmptyMap,
     node_map_by_created_at |-> EmptyMap]

\* BinaryHeap::peek of the queue of key: Some(address of the head) or None
PQPeek(m, key) ==
    IF key \in DOMAIN m.node_queue_map_by_key
    THEN IF Len(m.node_queue_map_by_key[key]) > 0
         THEN Some(m.node_queue_map_by_key[key][1])
         ELSE None
    ELSE None

\* RHTPriorityQueueMap::get
PQGet(m, key) ==
    IF PQPeek(m, key) = None
    THEN None
    ELSE LET node == m.nodes[Unwrap(PQPeek(m, key))]
         IN  IF PQNodeIsRemoved(node) THEN None ELSE Some(node.element)

\* RHTPriorityQueueMap::has
PQHas(m, key) ==
    IF PQPeek(m, key) = None
    THEN FALSE
    ELSE ~PQNodeIsRemoved(m.nodes[Unwrap(PQPeek(m, key))])

\* an Rc whose last reference is dropped frees its node
PQDropUnreferenced(m) ==
    LET live == Range(m.node_map_by_created_at) \cup
                UNION {Range(m.node_queue_map_by_key[k]) :
                          k \in DOMAIN m.node_queue_map_by_key}
    IN  [m EXCEPT !.nodes = [a \in live |-> m.nodes[a]]]

\* RHTPriorityQueueMap::set_internal
PQSetInternal(m, key, value) ==
    LET addr == FreshAddr(m.nodes)
        nodes == MapPut(m.nodes, addr, NewPQNode(key, value))
        queue == IF key \in DOMAIN m.node_queue_map_by_key
                 THEN m.node_queue_map_by_key[key]
                 ELSE <<>>
    IN  PQDropUnreferenced(
            [nodes |-> nodes,
             node_map_by_created_at |->
                 MapPut(m.node_map_by_created_at, value.created_at, addr),
             node_queue_map_by_key |->
                 MapPut(m.node_queue_map_by_key, key, HeapPush(nodes, queue, addr))])

\* a mutant of PQSetResult: a tombstoned head is returned too
PQSetResultIgnoresTombstone(m, key, value) ==
    IF PQPeek(m, key) = None
    THEN None
    ELSE LET node == m.nodes[Unwrap(PQPeek(m, key))]
         IN  IF After(value.created_at, node.element.created_at)
             THEN Some(ElementRemove(node.element, value.created_at))
             ELSE None

\* RHTPriorityQueueMap::set, its return value
PQSetResult(m, key, value) ==
    IF PQPeek(m, key) = None
    THEN None
    ELSE LET node == m.nodes[Unwrap(PQPeek(m, key))]
         IN  IF PQNodeIsRemoved(node)
             THEN None
             ELSE IF ElementRemoveResult(node.element, value.created_at)
                  THEN Some(PQNodeRemove(node, value.created_at).element)
                  ELSE None

\* RHTPriorityQueueMap::set, the map it leaves: every path through an existing
\* head returns before set_internal
PQSet(m, key, value) ==
    IF PQPeek(m, key) = None
    THEN PQSetInternal(m, key, value)
    ELSE LET addr == Unwrap(PQPeek(m, key))
             node == m.nodes[addr]
         IN  IF PQNodeIsRemoved(node)
             THEN m
             ELSE [m EXCEPT !.nodes[addr] = PQNodeRemove(node, value.created_at)]

\* RHTPriorityQueueMap::delete, its return value
PQDeleteResult(m, key, deleted_at) ==
    IF PQPeek(m, key) = None
    THEN None
    ELSE LET node == m.nodes[Unwrap(PQPeek(m, key))]
         IN  IF ElementRemoveResult(node.element, deleted_at)
             THEN Some(PQNodeRemove(node, deleted_at).element)
             ELSE None

\* a mutant of PQDelete: the head of every key is tombstoned
PQDeleteEveryHead(m, key, deleted_at) ==
    [m EXCEPT !.nodes =
        [a \in DOMAIN m.nodes |->
            IF \E k \in DOMAIN m.node_queue_map_by_key : PQPeek(m, k) = Some(a)
            THEN PQNodeRemove(m.nodes[a], deleted_at)
            ELSE m.nodes[a]]]

\* RHTPriorityQueueMap::delete, the map it leaves
PQDelete(m, key, deleted_at) ==
    IF PQPeek(m, key) = None
    THEN m
    ELSE LET addr == Unwrap(PQPeek(m, key))
         IN  [m EXCEPT !.nodes[addr] = PQNodeRemove(m.nodes[addr], deleted_at)]

\* RHTPriorityQueueMap::delete_by_created_at, its return value
PQDeleteByCreatedAtResult(m, created_at, deleted_at) ==
    IF created_at \in DOMAIN m.node_map_by_created_at
    THEN LET node == m.nodes[m.node_map_by_created_at[created_at]]
         IN  IF ElementRemoveResult(node.element, deleted_at)
             THEN Some(PQNodeRemove(node, deleted_at).element)
             ELSE None
    ELSE None

\* a mutant of PQDeleteByCreatedAt: every entry created at created_at is
\* tombstoned, tracked or not
PQDeleteByCreatedAtAllMatching(m, created_at, deleted_at) ==
    [m EXCEPT !.nodes =
        [a \in DOMAIN m.nodes |->
            IF m.nodes[a].element.created_at = created_at
            THEN PQNodeRemove(m.nodes[a], deleted_at)
            ELSE m.nodes[a]]]

\* RHTPriorityQueueMap::delete_by_created_at, the map it leaves
PQDeleteByCreatedAt(m, created_at, deleted_at) ==
    IF created_at \in DOMAIN m.node_map_by_created_at
    THEN LET addr == m.node_map_by_created_at[created_at]
         IN  [m EXCEPT !.nodes[addr] = PQNodeRemove(m.nodes[addr], deleted_at)]
    ELSE m

\* a mutant of PQElements: tombstoned entries are reported too
PQElementsWithRemoved(m) ==
    LET q == m.node_queue_map_by_key
    IN  [k \in {x \in DOMAIN q : Len(q[x]) > 0} |-> m.nodes[q[k][Len(q[k])]].element]

\* RHTPriorityQueueMap::elements: every queue is walked in the order of its
\* array, tombstoned nodes are skipped and a later insert under the same key
\* replaces an earlier one (the nodes of the queue of k have the key k)
PQElements(m) ==
    LET q == m.node_queue_map_by_key
        live(k) == {i \in 1..Len(q[k]) : ~PQNodeIsRemoved(m.nodes[q[k][i]])}
        last(k) == CHOOSE i \in live(k) : \A j \in live(k) : j <= i
    IN  [k \in {x \in DOMAIN q : live(x) # {}} |-> m.nodes[q[k][last(k)]].element]

\* BinaryHeap::sift_down_to_bottom from the 0-based position pos: the hole
\* moves to the greater child down to a leaf; the position it ends at
RECURSIVE SiftDownToBottom(_, _, _)
SiftDownToBottom(nodes, data, pos) ==
    LET end == Len(data)
        child == 2 * pos + 1
        swap(c) == [data EXCEPT ![pos + 1] = data[c + 1], ![c + 1] = data[pos + 1]]
    IN  IF end >= 2 /\ child <= end - 2
        THEN LET c == IF PQNodeLe(nodes[data[child + 1]], nodes[data[child + 2]])
                      THEN child + 1
                      ELSE child
             IN  SiftDownToBottom(nodes, swap(c), c)
        ELSE IF child = end - 1
             THEN [data |-> swap(child), pos |-> child]
             ELSE [data |-> data, pos |-> pos]

\* BinaryHeap::pop of a non-empty queue: the item popped and the array left
HeapPop(nodes, data) ==
    LET last == data[Len(data)]
        rest == SubSeq(data, 1, Len(data) - 1)
    IN  IF rest = <<>>
        THEN [item |-> last, data |-> <<>>]
        ELSE LET down == SiftDownToBottom(nodes, [rest EXCEPT ![1] = last], 0)
             IN  [item |-> rest[1], data |-> SiftUp(nodes, down.data, down.pos)]

\* the first loop of purge, run while the node at target is mutably borrowed:
\* item.borrow() panics when the item popped is that node; an item of the
\* same key is dropped, any other is pushed on subqueue
RECURSIVE PurgeDrain(_, _, _, _)
PurgeDrain(nodes, queue, subqueue, target) ==
    IF queue = <<>>
    THEN [panic |-> FALSE, queue |-> queue, subqueue |-> subqueue]
    ELSE LET popped == HeapPop(nodes, queue)
         IN  IF popped.item = target
             THEN [panic |-> TRUE, queue |-> popped.data, subqueue |-> subqueue]
             ELSE IF nodes[popped.item].key = nodes[target].key
                  THEN PurgeDrain(nodes, popped.data, subqueue, target)
                  ELSE PurgeDrain(nodes, popped.data,
                                  HeapPush(nodes, subqueue, popped.item), target)

\* the second loop of purge: subqueue is popped back into queue
RECURSIVE PurgeRefill(_, _, _)
PurgeRefill(nodes, queue, subqueue) ==
    IF subqueue = <<>>
    THEN queue
    ELSE LET popped == HeapPop(nodes, subqueue)
         IN  PurgeRefill(nodes, HeapPush(nodes, queue, popped.item), popped.data)

\* RHTPriorityQueueMap::purge, its outcome: Ok, Err(ElementNotFound) or the
\* panic of RefCell::borrow on a node that is mutably borrowed
PQPurgeResult(m, element) ==
    IF element.created_at \notin DOMAIN m.node_map_by_created_at
    THEN "ElementNotFound"
    ELSE LET target == m.node_map_by_created_at[element.created_at]
             key == m.nodes[target].key
         IN  IF key \notin DOMAIN m.node_queue_map_by_key
             THEN "ElementNotFound"
             ELSE IF PurgeDrain(m.nodes, m.node_queue_map_by_key[key], <<>>, target).panic
                  THEN "panic"
                  ELSE "Ok"

\* RHTPriorityQueueMap::purge, the map it leaves; after a panic, the map as
\* the unwinding leaves it
PQPurge(m, element) ==
    IF PQPurgeResult(m, element) = "ElementNotFound"
    THEN m
    ELSE LET target == m.node_map_by_created_at[element.created_at]
             node == m.nodes[target]
             drained == PurgeDrain(m.nodes, m.node_queue_map_by_key[node.key],
                                   <<>>, target)
         IN  IF drained.panic
             THEN PQDropUnreferenced(
                      [m EXCEPT !.node_queue_map_by_key[node.key] = drained.queue])
             ELSE PQDropUnreferenced(
                      [m EXCEPT !.node_queue_map_by_key[node.key] =
                                    PurgeRefill(m.nodes, drained.queue, drained.subqueue),
                                !.nodes[target] =
                                    PQNodeRemove(node, node.element.created_at)])

\* u32::to_string: the decimal digits, most significant first
RECURSIVE DecimalString(_)
DecimalString(n) ==
    IF n < 10
    THEN <<48 + n>>
    ELSE DecimalString(n \div 10) \o <<48 + (n % 10)>>

\* MockElement::to_string
ElementToString(e) == DecimalString(e.value)

\* the loop of to_string: "," before every pair but the first, then
\* "key":value, the key between double quotes
RECURSIVE PQRenderPairs(_, _, _)
PQRenderPairs(keys, members, i) ==
    IF i > Len(keys)
    THEN <<>>
    ELSE (IF i > 1 THEN <<44>> ELSE <<>>)
         \o <<34>> \o keys[i] \o <<34>> \o <<58>> \o ElementToString(members[keys[i]])
         \o PQRenderPairs(keys, members, i + 1)

\* a mutant of PQToString: the pairs are rendered as RHT::to_string renders
\* them, a bare key
PQToStringUnquoted(m) ==
    LET members == PQElements(m)
        keys == SortedKeys(DOMAIN members)
    IN  <<123>>
        \o RenderPairs(keys, [k \in DOMAIN members |-> ElementToString(members[k])], 1)
        \o <<125>>

\* RHTPriorityQueueMap::to_string
PQToString(m) ==
    LET members == PQElements(m)
        keys == SortedKeys(DOMAIN members)
    IN  <<123>> \o PQRenderPairs(keys, members, 1) \o <<125>>

----------------------------------------------------------------------------
(* document/json/element.rs: the Element capability, as MockElement        *)
(* implements it. An element the caller owns is an address into elems.     *)

\* MockElement::set_moved_at
ElementSetMovedAt(e, ticket) == [e EXCEPT !.moved_at = Some(ticket)]

\* Clone for MockElement, which Element::deepcopy stands for: every field is
\* copied into a new value
ElementClone(e) ==
    [value |-> e.value,
     created_at |-> e.created_at,
     moved_at |-> IF IsSome(e.moved_at) THEN Some(Unwrap(e.moved_at)) ELSE None,
     removed_at |-> IF IsSome(e.removed_at) THEN Some(Unwrap(e.removed_at)) ELSE None]

\* a mutant of DeepcopyAddr: the copy is the source itself
DeepcopyAddrShared(heap, addr) == addr

\* where the value built by clone lives: storage of its own
DeepcopyAddr(heap, addr) == FreshAddr(heap)

----------------------------------------------------------------------------
(* document/llrb.rs: the left-leaning red-black tree. A node is an address *)
(* into nodes; root, parent, left and right are Option<address>.           *)

\* llrb::Tree::new
NewLLRB == [nodes |-> EmptyMap, root |-> None, size |-> 0]

\* Node::new
NewLLRBNode(key, value, is_red) ==
    [key |-> key, value |-> value, is_red |-> is_red,
     parent |-> None, left |-> None, right |-> None]

\* TestKey::cmp, the Key of the tests: a u8
KeyCmp(a, b) == IntCmp(a, b)

\* is_red
IsRed(h, node) == IF node = None THEN FALSE ELSE h[Unwrap(node)].is_red

\* need_rotate_left
NeedRotateLeft(h, n) == IsRed(h, h[n].right) /\ ~IsRed(h, h[n].left)

\* need_rotate_right
NeedRotateRight(h, n) ==
    IF IsRed(h, h[n].left) THEN IsRed(h, h[Unwrap(h[n].left)].left) ELSE FALSE

\* need_flip_colors
NeedFlipColors(h, n) == IsRed(h, h[n].left) /\ IsRed(h, h[n].right)

\* rotate_left of a node that has a right child: the heap it leaves and the
\* node that takes the place of n
RotateLeft(h, n) ==
    LET r == Unwrap(h[n].right)
    IN  [nodes |-> [h EXCEPT ![n].right = h[r].left,
                             ![n].is_red = TRUE,
                             ![r].left = Some(n),
                             ![r].is_red = h[n].is_red],
         node |-> r]

\* rotate_right of a node that has a left child
RotateRight(h, n) ==
    LET l == Unwrap(h[n].left)
    IN  [nodes |-> [h EXCEPT ![n].left = h[l].right,
                             ![n].is_red = TRUE,
                             ![l].right = Some(n),
                             ![l].is_red = h[n].is_red],
         node |-> l]

\* flip_colors: the node and the children it has change colour
FlipColors(h, n) ==
    LET flipped == {n} \cup Range(h[n].left) \cup Range(h[n].right)
    IN  [a \in DOMAIN h |->
            IF a \in flipped THEN [h[a] EXCEPT !.is_red = ~h[a].is_red] ELSE h[a]]

\* Tree::insert_fix_up: the heap and the size it leaves, and the node that
\* takes the place of node
RECURSIVE InsertFixUp(_, _, _, _, _)
InsertFixUp(h, size, node, key, value) ==
    IF node = None
    THEN LET addr == FreshAddr(h)
         IN  [nodes |-> MapPut(h, addr, NewLLRBNode(key, value, TRUE)),
              size |-> size + 1, node |-> addr]
    ELSE LET n == Unwrap(node)
             compared == KeyCmp(key, h[n].key)
             below == IF compared = Less
                      THEN InsertFixUp(h, size, h[n].left, key, value)
                      ELSE InsertFixUp(h, size, h[n].right, key, value)
             h1 == IF compared = Less
                   THEN [below.nodes EXCEPT ![n].left = Some(below.node)]
                   ELSE IF compared = Greater
                        THEN [below.nodes EXCEPT ![n].right = Some(below.node)]
                        ELSE [h EXCEPT ![n].value = value]
             size1 == IF compared = Equal THEN size ELSE below.size
             s1 == IF NeedRotateLeft(h1, n)
                   THEN RotateLeft(h1, n)
                   ELSE [nodes |-> h1, node |-> n]
             s2 == IF NeedRotateRight(s1.nodes, s1.node)
                   THEN RotateRight(s1.nodes, s1.node)
                   ELSE s1
             h3 == IF NeedFlipColors(s2.nodes, s2.node)
                   THEN FlipColors(s2.nodes, s2.node)
                   ELSE s2.nodes
         IN  [nodes |-> h3, size |-> size1, node |-> s2.node]

\* a mutant of LLRBInsert: a key already in the tree gets a second node
LLRBInsertAlwaysNew(t, key, value) ==
    LET addr == FreshAddr(t.nodes)
    IN  [nodes |-> MapPut(t.nodes, addr,
                          [NewLLRBNode(key, value, TRUE) EXCEPT !.left = t.root]),
         root |-> Some(addr), size |-> t.size + 1]

\* Tree::insert: the root insert_fix_up returns is then made red
LLRBInsert(t, key, value) ==
    LET fixed == InsertFixUp(t.nodes, t.size, t.root, key, value)
    IN  [nodes |-> [fixed.nodes EXCEPT ![fixed.node].is_red = TRUE],
         root |-> Some(fixed.node), size |-> fixed.size]

\* test::keeping_order, its insert loop: the tree built from the empty one
\* by inserting the numbers of a case in turn, each as key and as value
RECURSIVE LLRBLoad(_, _)
LLRBLoad(t, case) ==
    IF case = <<>>
    THEN t
    ELSE LLRBLoad(LLRBInsert(t, Head(case), Head(case)), Tail(case))

\* the outcome of a call that panics: the heap as it is when the panic
\* starts to unwind
Panic(h, size) == [panic |-> TRUE, nodes |-> h, size |-> size, node |-> None]

\* move_red_left; node.right.unwrap() panics on a node without a right child
MoveRedLeft(h, size, n) ==
    LET Flipped(r2) ==
            [panic |-> FALSE, nodes |-> FlipColors(r2.nodes, r2.node), size |-> size,
             node |-> Some(r2.node)]
        Rotated(r1) == Flipped(RotateLeft([r1.nodes EXCEPT ![n].right = Some(r1.node)], n))
        Moved(h1) ==
            IF h1[n].right = None
            THEN Panic(h1, size)
            ELSE IF IsRed(h1, h1[Unwrap(h1[n].right)].left)
                 THEN Rotated(RotateRight(h1, Unwrap(h1[n].right)))
                 ELSE [panic |-> FALSE, nodes |-> h1, size |-> size, node |-> Some(n)]
    IN  Moved(FlipColors(h, n))

\* move_red_right; node.left.unwrap() panics on a node without a left child
MoveRedRight(h, size, n) ==
    LET Flipped(r1) ==
            [panic |-> FALSE, nodes |-> FlipColors(r1.nodes, r1.node), size |-> size,
             node |-> Some(r1.node)]
        Moved(h1) ==
            IF h1[n].left = None
            THEN Panic(h1, size)
            ELSE IF IsRed(h1, h1[Unwrap(h1[n].left)].left)
                 THEN Flipped(RotateRight(h1, n))
                 ELSE [panic |-> FALSE, nodes |-> h1, size |-> size, node |-> Some(n)]
    IN  Moved(FlipColors(h, n))

\* fix_up: rotate left on a red right child, rotate right on a red left child
\* with a red left child, flip colours on a red left child with a red RIGHT
\* child of its own
FixUp(h, n) ==
    LET Flip(s2) ==
            [nodes |-> IF /\ IsRed(s2.nodes, s2.nodes[s2.node].left)
                          /\ IsRed(s2.nodes, s2.nodes[Unwrap(s2.nodes[s2.node].left)].right)
                       THEN FlipColors(s2.nodes, s2.node)
                       ELSE s2.nodes,
             node |-> s2.node]
        Right(s1) ==
            Flip(IF /\ IsRed(s1.nodes, s1.nodes[s1.node].left)
                    /\ IsRed(s1.nodes, s1.nodes[Unwrap(s1.nodes[s1.node].left)].left)
                 THEN RotateRight(s1.nodes, s1.node)
                 ELSE s1)
    IN  Right(IF IsRed(h, h[n].right) THEN RotateLeft(h, n) ELSE [nodes |-> h, node |-> n])

\* min: the leftmost node below n
RECURSIVE Min(_, _)
Min(h, n) == IF h[n].left = None THEN n ELSE Min(h, Unwrap(h[n].left))

\* the first steps of remove_min and of the Less arm of remove_fix_up:
\* node.left.unwrap() panics when a left child that is not red is missing;
\* move_red_left when neither the left child nor its left child is red
LeanLeft(h, size, n) ==
    IF ~IsRed(h, h[n].left)
    THEN IF h[n].left = None
         THEN Panic(h, size)
         ELSE IF ~IsRed(h, h[Unwrap(h[n].left)].left)
              THEN MoveRedLeft(h, size, n)
              ELSE [panic |-> FALSE, nodes |-> h, size |-> size, node |-> Some(n)]
    ELSE [panic |-> FALSE, nodes |-> h, size |-> size, node |-> Some(n)]

\* remove_min
RECURSIVE RemoveMin(_, _, _)
RemoveMin(h, size, n) ==
    LET Fixed(fixed) ==
            [panic |-> FALSE, nodes |-> fixed.nodes, size |-> size,
             node |-> Some(fixed.node)]
        Relinked(below, n1) ==
            IF below.panic
            THEN below
            ELSE Fixed(FixUp([below.nodes EXCEPT ![n1].left = below.node], n1))
        Descend(lean) ==
            IF lean.panic
            THEN lean
            ELSE IF lean.nodes[Unwrap(lean.node)].left = None
                 THEN Panic(lean.nodes, size)
                 ELSE Relinked(RemoveMin(lean.nodes, size,
                                         Unwrap(lean.nodes[Unwrap(lean.node)].left)),
                               Unwrap(lean.node))
    IN  IF h[n].left = None
        THEN [panic |-> FALSE, nodes |-> h, size |-> size, node |-> None]
        ELSE Descend(LeanLeft(h, size, n))

\* the steps of the other arm of remove_fix_up before the key is compared
\* again: node.right.unwrap() panics when a right child that is not red is
\* missing; move_red_right when neither it nor its left child is red
LeanRight(h, size, n) ==
    IF ~IsRed(h, h[n].right)
    THEN IF h[n].right = None
         THEN Panic(h, size)
         ELSE IF ~IsRed(h, h[Unwrap(h[n].right)].left)
              THEN MoveRedRight(h, size, n)
              ELSE [panic |-> FALSE, nodes |-> h, size |-> size, node |-> Some(n)]
    ELSE [panic |-> FALSE, nodes |-> h, size |-> size, node |-> Some(n)]

\* Tree::remove_fix_up
RECURSIVE RemoveFixUp(_, _, _, _)
RemoveFixUp(h, size, n, key) ==
    LET Fixed(fixed, size1) ==
            [panic |-> FALSE, nodes |-> fixed.nodes, size |-> size1,
             node |-> Some(fixed.node)]
        RelinkedLeft(below, n1) ==
            IF below.panic
            THEN below
            ELSE Fixed(FixUp([below.nodes EXCEPT ![n1].left = below.node], n1), below.size)
        RelinkedRight(below, n2) ==
            IF below.panic
            THEN below
            ELSE Fixed(FixUp([below.nodes EXCEPT ![n2].right = below.node], n2), below.size)
        DescendLeft(lean) ==
            IF lean.panic
            THEN lean
            ELSE IF lean.nodes[Unwrap(lean.node)].left = None
                 THEN Panic(lean.nodes, size)
                 ELSE RelinkedLeft(RemoveFixUp(lean.nodes, size,
                                               Unwrap(lean.nodes[Unwrap(lean.node)].left),
                                               key),
                                   Unwrap(lean.node))
        \* node takes the key and the value of the smallest node to its right
        Replaced(h2, n2, smallest) ==
            [h2 EXCEPT ![n2].value = h2[smallest].value, ![n2].key = h2[smallest].key]
        DescendRight(h2, n2) ==
            IF h2[n2].right = None
            THEN Panic(h2, IF KeyCmp(key, h2[n2].key) = Equal THEN size - 1 ELSE size)
            ELSE RelinkedRight(
                     IF KeyCmp(key, h2[n2].key) = Equal
                     THEN RemoveMin(Replaced(h2, n2, Min(h2, Unwrap(h2[n2].right))),
                                    size - 1, Unwrap(h2[n2].right))
                     ELSE RemoveFixUp(h2, size, Unwrap(h2[n2].right), key),
                     n2)
        Leaned(lean) ==
            IF lean.panic THEN lean ELSE DescendRight(lean.nodes, Unwrap(lean.node))
        Other(s1) ==
            IF /\ KeyCmp(key, s1.nodes[s1.node].key) = Equal
               /\ s1.nodes[s1.node].right = None
            THEN [panic |-> FALSE, nodes |-> s1.nodes, size |-> size - 1, node |-> None]
            ELSE Leaned(LeanRight(s1.nodes, size, s1.node))
    IN  IF KeyCmp(key, h[n].key) = Less
        THEN DescendLeft(LeanLeft(h, size, n))
        ELSE Other(IF IsRed(h, h[n].left)
                   THEN RotateRight(h, n)
                   ELSE [nodes |-> h, node |-> n])

\* the nodes an Rc still reaches from the root, through left, right and
\* parent; the others are freed. [start with the root, add until closed]
RECURSIVE Reached(_, _)
Reached(h, S) ==
    LET more == S \cup UNION {Range(h[a].left) \cup Range(h[a].right) \cup Range(h[a].parent)
                                 : a \in S}
    IN  IF more = S THEN S ELSE Reached(h, more)

LLRBDropUnreferenced(t) ==
    [t EXCEPT !.nodes = [a \in Reached(t.nodes, Range(t.root)) |-> t.nodes[a]]]

\* Tree::remove, its first statements: the root is made red when neither of
\* its children is red
LLRBRemoveRoot(t) ==
    IF ~IsRed(t.nodes, t.nodes[Unwrap(t.root)].left)
       /\ ~IsRed(t.nodes, t.nodes[Unwrap(t.root)].right)
    THEN [t.nodes EXCEPT ![Unwrap(t.root)].is_red = TRUE]
    ELSE t.nodes

\* Tree::remove, whether it panics
LLRBRemovePanics(t, key) ==
    IF t.root = None
    THEN FALSE
    ELSE RemoveFixUp(LLRBRemoveRoot(t), t.size, Unwrap(t.root), key).panic

\* Tree::remove, the tree it leaves: self.root takes what remove_fix_up
\* returns; a panic leaves self.root as it was
LLRBRemove(t, key) ==
    LET Removed(removed) ==
            IF removed.panic
            THEN [nodes |-> removed.nodes, root |-> t.root, size |-> removed.size]
            ELSE LLRBDropUnreferenced(
                     [nodes |-> removed.nodes, root |-> removed.node,
                      size |-> removed.size])
    IN  IF t.root = None
        THEN t
        ELSE Removed(RemoveFixUp(LLRBRemoveRoot(t), t.size, Unwrap(t.root), key))

\* traverse_in_order: the nodes below node, left to right
RECURSIVE InOrder(_, _)
InOrder(h, node) ==
    IF node = None
    THEN <<>>
    ELSE InOrder(h, h[Unwrap(node)].left) \o <<Unwrap(node)>>
         \o InOrder(h, h[Unwrap(node)].right)

\* strings.join(",")
RECURSIVE Join(_)
Join(strings) ==
    IF strings = <<>>
    THEN <<>>
    ELSE IF Len(strings) = 1
         THEN Head(strings)
         ELSE Head(strings) \o <<44>> \o Join(Tail(strings))

\* Tree::to_string: the values in order, TestValue::to_string of each
LLRBToString(t) ==
    LET order == InOrder(t.nodes, t.root)
    IN  Join([i \in 1..Len(order) |-> DecimalString(t.nodes[order[i]].value)])

\* the walk back up of floor from a dead end: it stops at the first parent
\* that is not the child itself
RECURSIVE FloorClimb(_, _, _)
FloorClimb(h, parent, child) ==
    IF parent # child
    THEN [panic |-> FALSE, nodes |-> h,
          result |-> Some(<<h[parent].key, h[parent].value>>)]
    ELSE IF h[parent].parent = None
         THEN [panic |-> TRUE, nodes |-> h, result |-> None]
         ELSE FloorClimb(h, Unwrap(h[parent].parent), parent)

\* the loop of Tree::floor from node n: the parent of every child it steps
\* to is written; node.parent.unwrap() panics at a dead end without parent
RECURSIVE FloorFrom(_, _, _)
FloorFrom(h, n, key) ==
    IF KeyCmp(key, h[n].key) = Greater
    THEN IF h[n].right # None
         THEN FloorFrom([h EXCEPT ![Unwrap(h[n].right)].parent = Some(n)],
                        Unwrap(h[n].right), key)
         ELSE [panic |-> FALSE, nodes |-> h, result |-> Some(<<h[n].key, h[n].value>>)]
    ELSE IF KeyCmp(key, h[n].key) = Less
         THEN IF h[n].left # None
              THEN FloorFrom([h EXCEPT ![Unwrap(h[n].left)].parent = Some(n)],
                             Unwrap(h[n].left), key)
              ELSE IF h[n].parent = None
                   THEN [panic |-> TRUE, nodes |-> h, result |-> None]
                   ELSE FloorClimb(h, Unwrap(h[n].parent), n)
         ELSE [panic |-> FALSE, nodes |-> h, result |-> Some(<<h[n].key, h[n].value>>)]

\* Tree::floor, its outcome and the heap it leaves
LLRBFloor(t, key) ==
    IF t.root = None
    THEN [panic |-> FALSE, nodes |-> t.nodes, result |-> None]
    ELSE FloorFrom(t.nodes, Unwrap(t.root), key)

----------------------------------------------------------------------------
(* document/splay.rs: the splay tree. A node is an address into nodes.     *)

\* no splay::Tree has been constructed
NoSplay == [nodes |-> EmptyMap, root |-> None]

\* Node::new: no links, and init_weight makes weight the length of the value
SplayNodeNew(value) ==
    [value |-> value, weight |-> Len(value), parent |-> None, left |-> None,
     right |-> None]

\* Tree::new
SplayTreeNew(value) == [nodes |-> MapPut(EmptyMap, 1, SplayNodeNew(value)), root |-> Some(1)]

\* Node::left_weight and Node::right_weight: 0 for a missing child
LeftWeight(h, n) == IF h[n].left = None THEN 0 ELSE h[Unwrap(h[n].left)].weight
RightWeight(h, n) == IF h[n].right = None THEN 0 ELSE h[Unwrap(h[n].right)].weight

\* Tree::update_subtree: init_weight, then increase_weight by the weight of
\* each child there is
UpdateSubtree(h, n) ==
    LET own == Len(h[n].value)
        withLeft == IF h[n].left # None THEN own + LeftWeight(h, n) ELSE own
        withRight == IF h[n].right # None
                     THEN withLeft + RightWeight([h EXCEPT ![n].weight = withLeft], n)
                     ELSE withLeft
    IN  [h EXCEPT ![n].weight = withRight]

\* is_left_child and is_right_child
IsLeftChild(h, n) ==
    IF h[n].parent = None
    THEN FALSE
    ELSE LET parent == Unwrap(h[n].parent)
         IN  IF h[parent].left = None THEN FALSE ELSE Unwrap(h[parent].left) = n

IsRightChild(h, n) ==
    IF h[n].parent = None
    THEN FALSE
    ELSE LET parent == Unwrap(h[n].parent)
         IN  IF h[parent].right = None THEN FALSE ELSE Unwrap(h[parent].right) = n

\* The first statements of rotate_left and of rotate_right, which are the
\* same: pivot.parent.unwrap() panics on a pivot without parent; the parent
\* of the pivot's parent, or else self.root, is made to point to the pivot,
\* and parent.left.unwrap() panics when that node has no left child. The
\* next statement is pivot_rc.borrow_mut(), taken while the Ref of the first
\* statement is alive: RefCell panics (already borrowed), so no statement
\* after it runs.
SplayRelink(t, pivot) ==
    LET h == t.nodes
    IN  IF h[pivot].parent = None
        THEN [panic |-> TRUE, tree |-> t]
        ELSE LET root == Unwrap(h[pivot].parent)
             IN  IF h[root].parent # None
                 THEN LET parent == Unwrap(h[root].parent)
                      IN  IF h[parent].left = None
                          THEN [panic |-> TRUE, tree |-> t]
                          ELSE IF Unwrap(h[parent].left) = root
                               THEN [panic |-> TRUE,
                                     tree |-> [t EXCEPT !.nodes[parent].left = Some(pivot)]]
                               ELSE [panic |-> TRUE,
                                     tree |-> [t EXCEPT !.nodes[parent].right = Some(pivot)]]
                 ELSE [panic |-> TRUE, tree |-> [t EXCEPT !.root = Some(pivot)]]

\* Tree::rotate_left and Tree::rotate_right
SplayRotateLeft(t, pivot) == SplayRelink(t, pivot)
SplayRotateRight(t, pivot) == SplayRelink(t, pivot)

\* two rotations in a row, the second only when the first returns
SplayRotateTwice(t, first, firstLeft, second, secondLeft) ==
    LET r1 == IF firstLeft THEN SplayRotateLeft(t, first) ELSE SplayRotateRight(t, first)
    IN  IF r1.panic
        THEN r1
        ELSE IF secondLeft
             THEN SplayRotateLeft(r1.tree, second)
             ELSE SplayRotateRight(r1.tree, second)

\* Tree::splay: node.parent.unwrap() panics on a node without parent; the
\* loop goes on after a pair of rotations and returns after a single one
RECURSIVE SplaySplay(_, _)
SplaySplay(t, node) ==
    LET h == t.nodes
    IN  IF h[node].parent = None
        THEN [panic |-> TRUE, tree |-> t]
        ELSE LET parent == Unwrap(h[node].parent)
                 pair == IF IsLeftChild(h, parent) /\ IsRightChild(h, node)
                         THEN SplayRotateTwice(t, node, TRUE, node, FALSE)
                         ELSE IF IsRightChild(h, parent) /\ IsLeftChild(h, node)
                              THEN SplayRotateTwice(t, node, FALSE, node, TRUE)
                              ELSE SplayRotateTwice(t, parent, TRUE, node, TRUE)
             IN  IF \/ IsLeftChild(h, parent) /\ IsRightChild(h, node)
                    \/ IsRightChild(h, parent) /\ IsLeftChild(h, node)
                    \/ IsLeftChild(h, parent) /\ IsLeftChild(h, node)
                 THEN IF pair.panic THEN pair ELSE SplaySplay(pair.tree, node)
                 ELSE IF IsLeftChild(h, node)
                      THEN SplayRotateRight(t, node)
                      ELSE IF IsRightChild(h, node)
                           THEN SplayRotateLeft(t, node)
                           ELSE [panic |-> FALSE, tree |-> t]

----------------------------------------------------------------------------
(* document/key.rs *)

SPLITTER == <<36>>      \* "$"
TOKEN_LEN == 2

\* str::split(SPLITTER), from position i on with piece collected so far:
\* the pieces between the occurrences of the separator, empty ones included
RECURSIVE Split(_, _, _)
Split(s, i, piece) ==
    IF i > Len(s)
    THEN <<piece>>
    ELSE IF /\ i + Len(SPLITTER) - 1 <= Len(s)
            /\ SubSeq(s, i, i + Len(SPLITTER) - 1) = SPLITTER
         THEN <<piece>> \o Split(s, i + Len(SPLITTER), <<>>)
         ELSE Split(s, i + 1, Append(piece, s[i]))

\* a mutant of FromCombinedKey: pieces after the second are dropped
FromCombinedKeyFirstTwo(combined_key) ==
    LET splits == Split(combined_key, 1, <<>>)
    IN  IF Len(splits) < TOKEN_LEN
        THEN [ok |-> FALSE, err |-> "InvalidCombinedKeyError"]
        ELSE [ok |-> TRUE,
              key |-> [collection |-> splits[1], document |-> splits[2]]]

\* Key::from_combined_key
FromCombinedKey(combined_key) ==
    LET splits == Split(combined_key, 1, <<>>)
    IN  IF Len(splits) # TOKEN_LEN
        THEN [ok |-> FALSE, err |-> "InvalidCombinedKeyError"]
        ELSE [ok |-> TRUE,
              key |-> [collection |-> splits[1], document |-> splits[2]]]

\* Key::combined_key
CombinedKey(k) == k.collection \o SPLITTER \o k.document

----------------------------------------------------------------------------
(* client_options.rs, client.rs *)

\* the length of a hyphenated Uuid
UuidLen == 36

\* ClientOptions::default, uuid the key Uuid::new_v4 drew
ClientOptionsDefault(uuid) ==
    [key |-> uuid, sync_loop_duration |-> 50, reconnect_stream_delay |-> 1000]

\* Client::with_options
ClientWithOptions(rpc_address, options) ==
    [client_id |-> None, rpc_address |-> rpc_address, options |-> options,
     is_active |-> FALSE]

\* Client::new
ClientNew(rpc_address, uuid) ==
    ClientWithOptions(rpc_address, ClientOptionsDefault(uuid))

\* no client has been constructed
NoClient == <<>>

\* a mutant of Activate: an active client is activated again
ActivateAgain(c, server) ==
    IF ~server.connect
    THEN [client |-> c, result |-> "Err(transport)", contacted |-> TRUE]
    ELSE IF server.response = None
         THEN [client |-> c, result |-> "Err(status)", contacted |-> TRUE]
         ELSE [client |-> [c EXCEPT !.client_id = Some(Unwrap(server.response)),
                                    !.is_active = TRUE],
               result |-> "Ok", contacted |-> TRUE]

\* Client::activate. server is what the server does with this call: whether
\* YorkieClient::connect succeeds, and the client_id of the response to
\* activate_client (None for an error status). `?` returns the error before
\* any field is assigned.
Activate(c, server) ==
    IF c.is_active
    THEN [client |-> c, result |-> "Ok", contacted |-> FALSE]
    ELSE IF ~server.connect
         THEN [client |-> c, result |-> "Err(transport)", contacted |-> TRUE]
         ELSE IF server.response = None
              THEN [client |-> c, result |-> "Err(status)", contacted |-> TRUE]
              ELSE [client |-> [c EXCEPT !.client_id = Some(Unwrap(server.response)),
                                         !.is_active = TRUE],
                    result |-> "Ok", contacted |-> TRUE]

\* a mutant of Deactivate: the fields are cleared before the request is sent
DeactivateClearsFirst(c, server) ==
    IF ~c.is_active
    THEN [client |-> c, result |-> "Ok", contacted |-> FALSE]
    ELSE IF ~server.connect
         THEN [client |-> c, result |-> "Err(transport)", contacted |-> TRUE]
         ELSE [client |-> [c EXCEPT !.client_id = None, !.is_active = FALSE],
               result |-> IF server.response = None THEN "Err(status)" ELSE "Ok",
               contacted |-> TRUE]

\* Client::deactivate. The request is built after the connection is made, and
\* building it unwraps client_id.
Deactivate(c, server) ==
    IF ~c.is_active
    THEN [client |-> c, result |-> "Ok", contacted |-> FALSE]
    ELSE IF ~server.connect
         THEN [client |-> c, result |-> "Err(transport)", contacted |-> TRUE]
         ELSE IF c.client_id = None
              THEN [client |-> c, result |-> "panic", contacted |-> TRUE]
              ELSE IF server.response = None
                   THEN [client |-> c, result |-> "Err(status)", contacted |-> TRUE]
                   ELSE [client |-> [c EXCEPT !.client_id = None,
                                              !.is_active = FALSE],
                         result |-> "Ok", contacted |-> TRUE]

----------------------------------------------------------------------------
(* One RHT driven by arbitrary calls: SpecRHT. *)

Replicas == {1, 2}

NoCall == [op |-> "none"]

\* no ticket is under comparison
NoTickets == <<>>

\* the structures a specification does not exercise stay as constructed
IdleElement == elems = EmptyMap /\ handles = <<>> /\ elRet = NoCall
IdleLLRB == llrb = NewLLRB /\ llrbRet = NoCall
IdleSplay == splay = NoSplay /\ splayRet = NoCall
IdleKey == docKey = None /\ keyRet = NoCall
IdleClient == cli = NoClient /\ cliRet = NoCall

\* the variables the RHT actions leave alone
nonRHT ==
    <<ops, applied, rhtReplica, pq, pqRet, pqReplica, tk, tkRet,
      elemVars, llrbVars, splayVars, keyVars, cliVars>>

InitOthers ==
    /\ ops = {}
    /\ applied = [r \in Replicas |-> {}]
    /\ rhtReplica = [r \in Replicas |-> NewRHT]
    /\ pq = NewPQ
    /\ pqRet = NoCall
    /\ pqReplica = [r \in Replicas |-> NewPQ]
    /\ tk = NoTickets
    /\ tkRet = NoCall
    /\ IdleElement
    /\ IdleLLRB
    /\ IdleSplay
    /\ IdleKey
    /\ IdleClient

InitRHT ==
    /\ steps = 0
    /\ rht = NewRHT
    /\ ret = NoCall
    /\ InitOthers

CallInsert(key, val, executed_at) ==
    /\ steps < MaxSteps
    /\ steps' = steps + 1
    /\ rht' = RHTInsert(rht, key, val, executed_at)
    /\ ret' = [op |-> "insert", key |-> key, val |-> val, at |-> executed_at]
    /\ UNCHANGED nonRHT

CallRemove(key, executed_at) ==
    /\ steps < MaxSteps
    /\ steps' = steps + 1
    /\ rht' = RHTRemove(rht, key, executed_at)
    /\ ret' = [op |-> "remove", key |-> key, at |-> executed_at,
               result |-> RHTRemoveResult(rht, key, executed_at)]
    /\ UNCHANGED nonRHT

CallGet(key) ==
    /\ steps < MaxSteps
    /\ steps' = steps + 1
    /\ ret' = [op |-> "get", key |-> key, result |-> RHTGet(rht, key)]
    /\ UNCHANGED <<rht, nonRHT>>

CallHas(key) ==
    /\ steps < MaxSteps
    /\ steps' = steps + 1
    /\ ret' = [op |-> "has", key |-> key, result |-> RHTHas(rht, key)]
    /\ UNCHANGED <<rht, nonRHT>>

CallElements ==
    /\ steps < MaxSteps
    /\ steps' = steps + 1
    /\ ret' = [op |-> "elements", result |-> RHTElements(rht)]
    /\ UNCHANGED <<rht, nonRHT>>

CallToString ==
    /\ steps < MaxSteps
    /\ steps' = steps + 1
    /\ ret' = [op |-> "to_string", result |-> RHTToString(rht)]
    /\ UNCHANGED <<rht, nonRHT>>

\* HashMap::iter visits the entries in an order of its own: any order
IterOrders(S) == {o \in [1..Cardinality(S) -> S] : Range(o) = S}

CallClone(keys) ==
    /\ steps < MaxSteps
    /\ steps' = steps + 1
    /\ ret' = [op |-> "clone", result |-> RHTClone(rht, keys)]
    /\ UNCHANGED <<rht, nonRHT>>

\* every key a caller may pass: the keys in use and one never inserted
LookupKeys == Keys \cup {EmptyString}

NextRHT ==
    \/ \E k \in Keys, v \in Values, t \in Tickets : CallInsert(k, v, t)
    \/ \E k \in LookupKeys, t \in Tickets : CallRemove(k, t)
    \/ \E k \in LookupKeys : CallGet(k)
    \/ \E k \in LookupKeys : CallHas(k)
    \/ CallElements
    \/ CallToString
    \/ \E keys \in IterOrders(DOMAIN rht.node_map_by_key) : CallClone(keys)

SpecRHT == InitRHT /\ [][NextRHT]_vars

----------------------------------------------------------------------------
(* Claims about one RHT (SpecRHT). *)

HasEntry(t, key) == key \in DOMAIN t.node_map_by_key
Entry(t, key) == t.nodes[t.node_map_by_key[key]]
IsCall(name) == ret'.op = name /\ steps' = steps + 1

\* C3: insert is last-writer-wins. When the key has no entry, or the ticket is
\* after the entry's updated_at, the entry becomes (value, updated_at = ticket,
\* no tombstone) and get returns the value; otherwise the table is unchanged.
C3_InsertLastWriterWins ==
    [][IsCall("insert") =>
        LET k == ret'.key
            v == ret'.val
            t == ret'.at
        IN  IF ~HasEntry(rht, k) \/ TicketCmp(t, Entry(rht, k).updated_at) = Greater
            THEN /\ HasEntry(rht', k)
                 /\ Entry(rht', k) = [key |-> k, val |-> v, updated_at |-> t,
                                      removed_at |-> None]
                 /\ RHTGet(rht', k) = v
                 /\ RHTHas(rht', k)
            ELSE /\ rht' = rht
                 /\ \A o \in LookupKeys :
                        /\ RHTGet(rht', o) = RHTGet(rht, o)
                        /\ RHTHas(rht', o) = RHTHas(rht, o)]_vars

\* C3 witness: a stale insert was ignored: the entry holds a later ticket and
\* another value than the last insert call carried.
C3_Witness ==
    /\ ret.op = "insert"
    /\ HasEntry(rht, ret.key)
    /\ TicketCmp(Entry(rht, ret.key).updated_at, ret.at) = Greater
    /\ Entry(rht, ret.key).val # ret.val
    /\ RHTGet(rht, ret.key) = Entry(rht, ret.key).val

\* C5: tombstones are monotonic. After remove on an existing key, get returns
\* empty and has is false; a remove whose ticket is not after the entry's
\* tombstone changes neither get/has nor the tombstone; and in no step does
\* the tombstone of a key move from a ticket to an earlier one.
C5_TombstoneMonotonic ==
    [][/\ IsCall("remove") /\ HasEntry(rht, ret'.key) =>
            /\ RHTGet(rht', ret'.key) = EmptyString
            /\ ~RHTHas(rht', ret'.key)
            /\ (/\ Entry(rht, ret'.key).removed_at # None
                /\ TicketCmp(ret'.at, Entry(rht, ret'.key).removed_at[1]) # Greater)
               => /\ Entry(rht', ret'.key).removed_at = Entry(rht, ret'.key).removed_at
                  /\ RHTGet(rht', ret'.key) = RHTGet(rht, ret'.key)
                  /\ RHTHas(rht', ret'.key) = RHTHas(rht, ret'.key)
       /\ \A k \in Keys :
            (/\ HasEntry(rht, k) /\ Entry(rht, k).removed_at # None
             /\ HasEntry(rht', k) /\ Entry(rht', k).removed_at # None)
            => TicketCmp(Entry(rht', k).removed_at[1],
                         Entry(rht, k).removed_at[1]) # Less]_vars

\* C5 witness: a remove with an older ticket came after a remove with a newer
\* one: the tombstone kept the newer ticket and the call returned empty.
C5_Witness ==
    /\ ret.op = "remove"
    /\ HasEntry(rht, ret.key)
    /\ Entry(rht, ret.key).removed_at # None
    /\ TicketCmp(Entry(rht, ret.key).removed_at[1], ret.at) = Greater
    /\ Entry(rht, ret.key).val # EmptyString
    /\ RHTGet(rht, ret.key) = EmptyString

\* C6: lookups are total and read-only. has(key) is true iff the key has an
\* entry without a tombstone; get(key) is the entry's value when has(key) and
\* the empty string otherwise; neither changes the table.
C6_LookupsTotal ==
    [][/\ IsCall("has") =>
            /\ rht' = rht
            /\ ret'.result = (/\ HasEntry(rht, ret'.key)
                              /\ Entry(rht, ret'.key).removed_at = None)
       /\ IsCall("get") =>
            /\ rht' = rht
            /\ ret'.result =
                   IF /\ HasEntry(rht, ret'.key)
                      /\ Entry(rht, ret'.key).removed_at = None
                   THEN Entry(rht, ret'.key).val
                   ELSE EmptyString
            /\ ret'.result = IF RHTHas(rht, ret'.key)
                             THEN Entry(rht, ret'.key).val
                             ELSE EmptyString]_vars

\* C6 witness: get on a tombstoned key whose value is not empty returned the
\* empty string.
C6_Witness ==
    /\ ret.op = "get"
    /\ HasEntry(rht, ret.key)
    /\ Entry(rht, ret.key).removed_at # None
    /\ Entry(rht, ret.key).val # EmptyString
    /\ ret.result = EmptyString

C8_ElementsAreLive ==
    ret.op = "elements" =>
        /\ \A k \in LookupKeys : (k \in DOMAIN ret.result) <=> RHTHas(rht, k)
        /\ \A k \in DOMAIN ret.result : ret.result[k] = RHTGet(rht, k)

\* the rendering {k1:v1,k2:v2,...} of the live pairs, keys ascending
LiveRendering(t) ==
    LET live == {k \in DOMAIN t.node_map_by_key : RHTHas(t, k)}
        pairs == [k \in live |-> RHTGet(t, k)]
    IN  <<123>> \o RenderPairs(SortedKeys(live), pairs, 1) \o <<125>>

\* C9: to_string() renders exactly the live pairs, keys ascending, and "{}"
\* for a table without live pairs.
C9_ToStringRendersLive ==
    ret.op = "to_string" => ret.result = LiveRendering(rht)

----------------------------------------------------------------------------
(* A set of operations delivered to replicas in any order, any number of   *)
(* times: one replica and inserts only (SpecRHTReplay), two replicas and   *)
(* inserts and removes (SpecRHTConv).                                      *)

InsertOp(key, val, at) == [kind |-> "insert", key |-> key, val |-> val, at |-> at]
RemoveOp(key, at) == [kind |-> "remove", key |-> key, at |-> at]

InsertOps == {InsertOp(k, v, t) : k \in Keys, v \in Values, t \in Tickets}
RemoveOps == {RemoveOp(k, t) : k \in Keys, t \in Tickets}

\* the subsets of S of at most n elements
RECURSIVE SubsetsUpTo(_, _)
SubsetsUpTo(S, n) ==
    IF n = 0
    THEN {{}}
    ELSE LET smaller == SubsetsUpTo(S, n - 1)
         IN  smaller \cup {T \cup {x} : T \in smaller, x \in S}

DistinctTickets(S) == \A a, b \in S : a # b => a.at # b.at

\* the variables the delivery actions leave alone
nonDelivery ==
    <<steps, rht, ret, pq, pqRet, pqReplica, tk, tkRet,
      elemVars, llrbVars, splayVars, keyVars, cliVars>>

InitDelivery(opSets, replicas) ==
    /\ steps = 0
    /\ rht = NewRHT
    /\ ret = NoCall
    /\ pq = NewPQ
    /\ pqRet = NoCall
    /\ pqReplica = [r \in Replicas |-> NewPQ]
    /\ tk = NoTickets
    /\ tkRet = NoCall
    /\ IdleElement
    /\ IdleLLRB
    /\ IdleSplay
    /\ IdleKey
    /\ IdleClient
    /\ ops \in opSets
    /\ applied = [r \in replicas |-> {}]
    /\ rhtReplica = [r \in replicas |-> NewRHT]

InitRHTReplay ==
    InitDelivery({S \in SubsetsUpTo(InsertOps, MaxReplayOps) : DistinctTickets(S)}, {1})

InitRHTConv ==
    InitDelivery(SubsetsUpTo(InsertOps \cup RemoveOps, MaxOps), Replicas)

DeliverInsert(r, op) ==
    /\ op.kind = "insert"
    /\ rhtReplica' = [rhtReplica EXCEPT ![r] = RHTInsert(@, op.key, op.val, op.at)]
    /\ applied' = [applied EXCEPT ![r] = @ \cup {op}]
    /\ UNCHANGED <<ops, nonDelivery>>

DeliverRemove(r, op) ==
    /\ op.kind = "remove"
    /\ rhtReplica' = [rhtReplica EXCEPT ![r] = RHTRemove(@, op.key, op.at)]
    /\ applied' = [applied EXCEPT ![r] = @ \cup {op}]
    /\ UNCHANGED <<ops, nonDelivery>>

NextRHTReplay ==
    \E r \in DOMAIN rhtReplica, op \in ops : DeliverInsert(r, op)

NextRHTConv ==
    \/ \E r \in DOMAIN rhtReplica, op \in ops : DeliverInsert(r, op)
    \/ \E r \in DOMAIN rhtReplica, op \in ops : DeliverRemove(r, op)

SpecRHTReplay == InitRHTReplay /\ [][NextRHTReplay]_vars

SpecRHTConv == InitRHTConv /\ [][NextRHTConv]_vars

\* the operations of S on key k whose ticket no other operation on k exceeds
Greatest(S, k) ==
    {o \in S : /\ o.key = k
               /\ \A p \in S : p.key = k => TicketCmp(p.at, o.at) # Greater}

\* C1: two replicas that have applied the same set of inserts and removes, in
\* any order and any number of times, agree on get(k) and has(k) for every k.
C1_RHTConvergence ==
    (\A r \in Replicas : applied[r] = ops) =>
        \A k \in Keys :
            /\ RHTGet(rhtReplica[1], k) = RHTGet(rhtReplica[2], k)
            /\ RHTHas(rhtReplica[1], k) = RHTHas(rhtReplica[2], k)

\* C4: insert is commutative and idempotent. Once every insert of a set with
\* distinct tickets has been applied, in whatever order and however often,
\* get(k) is the value carried by the greatest ticket for k (and k is absent
\* when the set has no insert for k).
C4_InsertCommutativeIdempotent ==
    applied[1] = ops =>
        \A k \in Keys :
            IF Greatest(ops, k) = {}
            THEN RHTGet(rhtReplica[1], k) = EmptyString /\ ~RHTHas(rhtReplica[1], k)
            ELSE /\ \A o \in Greatest(ops, k) : RHTGet(rhtReplica[1], k) = o.val
                 /\ RHTHas(rhtReplica[1], k)

\* C4 witness: all of three inserts on one key were applied, the greatest
\* ticket carrying a value the other two do not carry.
C4_Witness ==
    /\ applied[1] = ops
    /\ Cardinality(ops) = 3
    /\ \E k \in Keys :
        /\ \A o \in ops : o.key = k
        /\ \A o \in Greatest(ops, k) :
            /\ o.val # EmptyString
            /\ RHTGet(rhtReplica[1], k) = o.val
            /\ \A p \in ops \ {o} : p.val # o.val

----------------------------------------------------------------------------
(* One RHTPriorityQueueMap driven by arbitrary calls: SpecPQ. *)

\* the variables the RHTPriorityQueueMap actions leave alone
nonPQ ==
    <<rht, ret, ops, applied, rhtReplica, pqReplica, tk, tkRet,
      elemVars, llrbVars, splayVars, keyVars, cliVars>>

InitPQ ==
    /\ steps = 0
    /\ rht = NewRHT
    /\ ret = NoCall
    /\ ops = {}
    /\ applied = [r \in Replicas |-> {}]
    /\ rhtReplica = [r \in Replicas |-> NewRHT]
    /\ pq = NewPQ
    /\ pqRet = NoCall
    /\ pqReplica = [r \in Replicas |-> NewPQ]
    /\ tk = NoTickets
    /\ tkRet = NoCall
    /\ IdleElement
    /\ IdleLLRB
    /\ IdleSplay
    /\ IdleKey
    /\ IdleClient

\* a panic unwinds out of the caller: no call follows it
Panicked == pqRet.op = "purge" /\ pqRet.result = "panic"

CallPQSet(key, value) ==
    /\ ~Panicked
    /\ steps < MaxPQSteps
    /\ steps' = steps + 1
    /\ pq' = PQSet(pq, key, value)
    /\ pqRet' = [op |-> "set", key |-> key, value |-> value,
                 result |-> PQSetResult(pq, key, value)]
    /\ UNCHANGED nonPQ

CallPQGet(key) ==
    /\ ~Panicked
    /\ steps < MaxPQSteps
    /\ steps' = steps + 1
    /\ pqRet' = [op |-> "get", key |-> key, result |-> PQGet(pq, key)]
    /\ UNCHANGED <<pq, nonPQ>>

CallPQHas(key) ==
    /\ ~Panicked
    /\ steps < MaxPQSteps
    /\ steps' = steps + 1
    /\ pqRet' = [op |-> "has", key |-> key, result |-> PQHas(pq, key)]
    /\ UNCHANGED <<pq, nonPQ>>

CallPQDelete(key, deleted_at) ==
    /\ ~Panicked
    /\ steps < MaxPQSteps
    /\ steps' = steps + 1
    /\ pq' = PQDelete(pq, key, deleted_at)
    /\ pqRet' = [op |-> "delete", key |-> key, at |-> deleted_at,
                 result |-> PQDeleteResult(pq, key, deleted_at)]
    /\ UNCHANGED nonPQ

CallPQDeleteByCreatedAt(created_at, deleted_at) ==
    /\ ~Panicked
    /\ steps < MaxPQSteps
    /\ steps' = steps + 1
    /\ pq' = PQDeleteByCreatedAt(pq, created_at, deleted_at)
    /\ pqRet' = [op |-> "delete_by_created_at", created_at |-> created_at,
                 at |-> deleted_at,
                 result |-> PQDeleteByCreatedAtResult(pq, created_at, deleted_at)]
    /\ UNCHANGED nonPQ

CallPQElements ==
    /\ ~Panicked
    /\ steps < MaxPQSteps
    /\ steps' = steps + 1
    /\ pqRet' = [op |-> "elements", result |-> PQElements(pq)]
    /\ UNCHANGED <<pq, nonPQ>>

CallPQPurge(element) ==
    /\ ~Panicked
    /\ steps < MaxPQSteps
    /\ steps' = steps + 1
    /\ pq' = PQPurge(pq, element)
    /\ pqRet' = [op |-> "purge", element |-> element,
                 result |-> PQPurgeResult(pq, element)]
    /\ UNCHANGED nonPQ

CallPQToString ==
    /\ ~Panicked
    /\ steps < MaxPQSteps
    /\ steps' = steps + 1
    /\ pqRet' = [op |-> "to_string", result |-> PQToString(pq)]
    /\ UNCHANGED <<pq, nonPQ>>

NextPQ ==
    \/ \E k \in Keys, e \in Elements : CallPQSet(k, e)
    \/ \E k \in LookupKeys : CallPQGet(k)
    \/ \E k \in LookupKeys : CallPQHas(k)
    \/ \E k \in LookupKeys, t \in Tickets : CallPQDelete(k, t)
    \/ \E c \in Tickets, t \in Tickets : CallPQDeleteByCreatedAt(c, t)
    \/ CallPQElements
    \/ \E e \in Elements : CallPQPurge(e)
    \/ CallPQToString

SpecPQ == InitPQ /\ [][NextPQ]_vars

IsPQCall(name) == pqRet'.op = name /\ steps' = steps + 1

\* C10: set(key, element) returns the previous head when that head is live and
\* element.created_at is after the head's creation ticket, and the head is then
\* tombstoned at element.created_at; it returns nothing when the key has no
\* entry or when the head is already tombstoned (nor when a live head was not
\* created before the element).
C10_SetReturnsDisplacedHead ==
    [][IsPQCall("set") =>
        LET k == pqRet'.key
            e == pqRet'.value
        IN  IF PQPeek(pq, k) = None
            THEN pqRet'.result = None
            ELSE LET addr == PQPeek(pq, k)[1]
                     head == pq.nodes[addr].element
                 IN  IF head.removed_at # None
                     THEN pqRet'.result = None
                     ELSE IF TicketCmp(e.created_at, head.created_at) = Greater
                          THEN /\ pqRet'.result =
                                     <<[head EXCEPT !.removed_at = <<e.created_at>>]>>
                               /\ pqRet'.result[1].value = head.value
                               /\ pq'.nodes[addr].element.removed_at = <<e.created_at>>
                          ELSE pqRet'.result = None]_vars

\* C10 witness: a set whose element has value 2 returned the displaced head of
\* value 1, tombstoned at the creation ticket of the new element.
C10_Witness ==
    /\ pqRet.op = "set"
    /\ pqRet.value.value = 2
    /\ pqRet.result # None
    /\ pqRet.result[1].value = 1
    /\ pqRet.result[1].removed_at = <<pqRet.value.created_at>>

\* the entry the creation-ticket index holds for created_at is queued under key
Tracked(m, key, created_at) ==
    /\ created_at \in DOMAIN m.node_map_by_created_at
    /\ key \in DOMAIN m.node_queue_map_by_key
    /\ m.node_map_by_created_at[created_at] \in Range(m.node_queue_map_by_key[key])
    /\ m.nodes[m.node_map_by_created_at[created_at]].element.created_at = created_at

\* C11: set(key, element) always inserts element: after the call the element
\* is queued under key and addressable by its own creation ticket, whether or
\* not a head existed, was displaced or was already tombstoned.
C11_SetAlwaysInserts ==
    [][IsPQCall("set") =>
        Tracked(pq', pqRet'.key, pqRet'.value.created_at)]_vars

\* C12: get(key) and has(key) consult only the head of key: get returns the
\* head iff it is not tombstoned, has(key) is true iff get(key) returns a
\* value, and after set(k, e2) has displaced a live head e1, get(k) returns e2
\* and has(k) is true.
C12_GetHasConsultHead ==
    [][/\ IsPQCall("get") =>
            /\ PQPeek(pq, pqRet'.key) = None => pqRet'.result = None
            /\ PQPeek(pq, pqRet'.key) # None =>
                 LET head == pq.nodes[PQPeek(pq, pqRet'.key)[1]].element
                 IN  pqRet'.result =
                         IF head.removed_at = None THEN <<head>> ELSE None
            /\ PQHas(pq, pqRet'.key) <=> pqRet'.result # None
       /\ IsPQCall("has") =>
            (pqRet'.result <=> PQGet(pq, pqRet'.key) # None)
       /\ (IsPQCall("set") /\ pqRet'.result # None) =>
            /\ PQGet(pq', pqRet'.key) = <<pqRet'.value>>
            /\ PQHas(pq', pqRet'.key)]_vars

\* deleted_at is after the creation ticket of e and after its tombstone, if any
Accepts(e, deleted_at) ==
    /\ TicketCmp(deleted_at, e.created_at) = Greater
    /\ e.removed_at # None => TicketCmp(deleted_at, e.removed_at[1]) = Greater

\* the call changed no entry but the one at addr, and neither map
OnlyEntryChanged(addr) ==
    /\ DOMAIN pq'.nodes = DOMAIN pq.nodes
    /\ \A a \in DOMAIN pq.nodes \ {addr} : pq'.nodes[a] = pq.nodes[a]
    /\ pq'.node_queue_map_by_key = pq.node_queue_map_by_key
    /\ pq'.node_map_by_created_at = pq.node_map_by_created_at
    /\ pq'.nodes[addr].key = pq.nodes[addr].key

\* C13: delete(key, deleted_at) tombstones the head of key at deleted_at when
\* deleted_at is after the head's creation ticket and its tombstone, if any,
\* and returns it, after which has(key) is false; for a key with no entry it
\* returns nothing and changes nothing; the entries of other keys are never
\* affected.
C13_DeleteTombstonesHead ==
    [][IsPQCall("delete") =>
        LET k == pqRet'.key
            at == pqRet'.at
        IN  /\ PQPeek(pq, k) = None => (pqRet'.result = None /\ pq' = pq)
            /\ PQPeek(pq, k) # None =>
                 LET addr == PQPeek(pq, k)[1]
                     head == pq.nodes[addr].element
                 IN  /\ OnlyEntryChanged(addr)
                     /\ Accepts(head, at) =>
                          /\ pq'.nodes[addr].element =
                                 [head EXCEPT !.removed_at = <<at>>]
                          /\ pqRet'.result = <<pq'.nodes[addr].element>>
                          /\ ~PQHas(pq', k)
            /\ \A k2 \in Keys \ {k} :
                 /\ PQGet(pq', k2) = PQGet(pq, k2)
                 /\ PQHas(pq', k2) = PQHas(pq, k2)]_vars

\* C13 witness: a delete returned the head of value 2 of its key, tombstoned
\* at deleted_at, while the other key still has its live head.
C13_Witness ==
    /\ pqRet.op = "delete"
    /\ pqRet.result # None
    /\ pqRet.result[1].value = 2
    /\ pqRet.result[1].removed_at = <<pqRet.at>>
    /\ ~PQHas(pq, pqRet.key)
    /\ \E k2 \in Keys \ {pqRet.key} : PQHas(pq, k2)

C16_PurgeEvictsExactly ==
    [][(IsPQCall("purge") /\
        pqRet'.element.created_at \in DOMAIN pq.node_map_by_created_at) =>
        LET c == pqRet'.element.created_at
            target == pq.node_map_by_created_at[c]
        IN  /\ pqRet'.result = "Ok"
            /\ c \notin DOMAIN pq'.node_map_by_created_at
            /\ \A k \in DOMAIN pq'.node_queue_map_by_key :
                  target \notin Range(pq'.node_queue_map_by_key[k])
            /\ \A t \in Tickets : PQDeleteByCreatedAtResult(pq', c, t) = None
            /\ \A a \in DOMAIN pq.nodes \ {target} :
                  /\ a \in DOMAIN pq'.nodes
                  /\ pq'.nodes[a] = pq.nodes[a]
                  /\ \A k \in DOMAIN pq.node_queue_map_by_key :
                        a \in Range(pq.node_queue_map_by_key[k]) =>
                            a \in Range(pq'.node_queue_map_by_key[k])]_vars

\* C17: purge(element) fails with ElementNotFound exactly when
\* element.created_at is not tracked by the map, and then the map is left
\* unchanged; it ends in no way but Ok or ElementNotFound.
C17_PurgeFailsOnlyUntracked ==
    [][IsPQCall("purge") =>
        LET tracked == pqRet'.element.created_at \in DOMAIN pq.node_map_by_created_at
        IN  /\ pqRet'.result \in {"Ok", "ElementNotFound"}
            /\ pqRet'.result = "ElementNotFound" <=> ~tracked
            /\ ~tracked => pq' = pq]_vars

\* the pairs key:value of the live heads of keys, in the order of keys,
\* separated by commas, every key between two copies of quote
RECURSIVE HeadPairs(_, _, _)
HeadPairs(m, keys, quote) ==
    IF keys = <<>>
    THEN <<>>
    ELSE quote \o Head(keys) \o quote \o <<58>>
         \o DecimalString(PQGet(m, Head(keys))[1].value)
         \o (IF Len(keys) > 1 THEN <<44>> ELSE <<>>)
         \o HeadPairs(m, Tail(keys), quote)

\* the keys that have a live head, in ascending order
LiveHeadKeys(m) == SortedKeys({k \in DOMAIN m.node_queue_map_by_key : PQHas(m, k)})

\* C18 as claimed: to_string() renders the live heads in the format of
\* RHT::to_string, {key1:value1,key2:value2,...}, keys ascending, with no
\* quoting and no whitespace.
C18_ToStringSameAsRHT ==
    pqRet.op = "to_string" =>
        pqRet.result = <<123>> \o HeadPairs(pq, LiveHeadKeys(pq), <<>>) \o <<125>>

\* C18 amended: to_string() renders the live heads as
\* {"key1":value1,"key2":value2,...}, keys ascending, every key between double
\* quotes, key and value separated by a single colon, with no whitespace.
C18_ToStringQuotesKeys ==
    pqRet.op = "to_string" =>
        pqRet.result = <<123>> \o HeadPairs(pq, LiveHeadKeys(pq), <<34>>) \o <<125>>

\* C18 witness: to_string() returned {"ab":1,"b":2}.
C18_Witness ==
    /\ pqRet.op = "to_string"
    /\ pqRet.result = <<123, 34, 97, 98, 34, 58, 49, 44, 34, 98, 34, 58, 50, 125>>

----------------------------------------------------------------------------
(* A set of set and delete_by_created_at calls delivered to two            *)
(* RHTPriorityQueueMap replicas in any order, any number of times:         *)
(* SpecPQConv.                                                             *)

SetOp(key, value) == [kind |-> "set", key |-> key, value |-> value]
DeleteByCreatedAtOp(created_at, at) ==
    [kind |-> "delete_by_created_at", created_at |-> created_at, at |-> at]

SetOps == {SetOp(k, e) : k \in Keys, e \in Elements}
DeleteByCreatedAtOps == {DeleteByCreatedAtOp(c, t) : c \in Tickets, t \in Tickets}

\* the variables the delivery actions on pqReplica leave alone
nonPQDelivery ==
    <<steps, rht, ret, rhtReplica, pq, pqRet, tk, tkRet,
      elemVars, llrbVars, splayVars, keyVars, cliVars>>

InitPQConv ==
    /\ steps = 0
    /\ rht = NewRHT
    /\ ret = NoCall
    /\ rhtReplica = [r \in Replicas |-> NewRHT]
    /\ pq = NewPQ
    /\ pqRet = NoCall
    /\ ops \in SubsetsUpTo(SetOps \cup DeleteByCreatedAtOps, MaxOps)
    /\ applied = [r \in Replicas |-> {}]
    /\ pqReplica = [r \in Replicas |-> NewPQ]
    /\ tk = NoTickets
    /\ tkRet = NoCall
    /\ IdleElement
    /\ IdleLLRB
    /\ IdleSplay
    /\ IdleKey
    /\ IdleClient

DeliverSet(r, op) ==
    /\ op.kind = "set"
    /\ pqReplica' = [pqReplica EXCEPT ![r] = PQSet(@, op.key, op.value)]
    /\ applied' = [applied EXCEPT ![r] = @ \cup {op}]
    /\ UNCHANGED <<ops, nonPQDelivery>>

DeliverDeleteByCreatedAt(r, op) ==
    /\ op.kind = "delete_by_created_at"
    /\ pqReplica' = [pqReplica EXCEPT ![r] = PQDeleteByCreatedAt(@, op.created_at, op.at)]
    /\ applied' = [applied EXCEPT ![r] = @ \cup {op}]
    /\ UNCHANGED <<ops, nonPQDelivery>>

NextPQConv ==
    \/ \E r \in Replicas, op \in ops : DeliverSet(r, op)
    \/ \E r \in Replicas, op \in ops : DeliverDeleteByCreatedAt(r, op)

SpecPQConv == InitPQConv /\ [][NextPQConv]_vars

\* C2: two replicas that have applied the same set of set and
\* delete_by_created_at calls, in any order, agree on get(k) and has(k) for
\* every key k.
C2_PQConvergence ==
    (\A r \in Replicas : applied[r] = ops) =>
        \A k \in Keys :
            /\ PQGet(pqReplica[1], k) = PQGet(pqReplica[2], k)
            /\ PQHas(pqReplica[1], k) = PQHas(pqReplica[2], k)

----------------------------------------------------------------------------
(* Ticket::cmp and Ticket::after applied to three tickets drawn from the   *)
(* universe: SpecTicket.                                                   *)

\* the variables the Ticket actions leave alone
nonTicket ==
    <<steps, rht, ret, ops, applied, rhtReplica, pq, pqRet, pqReplica,
      elemVars, llrbVars, splayVars, keyVars, cliVars>>

InitTicket ==
    /\ steps = 0
    /\ rht = NewRHT
    /\ ret = NoCall
    /\ ops = {}
    /\ applied = [r \in Replicas |-> {}]
    /\ rhtReplica = [r \in Replicas |-> NewRHT]
    /\ pq = NewPQ
    /\ pqRet = NoCall
    /\ pqReplica = [r \in Replicas |-> NewPQ]
    /\ tk \in [1..3 -> TicketUniverse]
    /\ tkRet = NoCall
    /\ IdleElement
    /\ IdleLLRB
    /\ IdleSplay
    /\ IdleKey
    /\ IdleClient

\* tk[x].cmp(&tk[y])
CallCmp(x, y) ==
    /\ tkRet' = [op |-> "cmp", x |-> x, y |-> y, result |-> TicketCmp(tk[x], tk[y])]
    /\ UNCHANGED <<tk, nonTicket>>

\* tk[x].after(&tk[y])
CallAfter(x, y) ==
    /\ tkRet' = [op |-> "after", x |-> x, y |-> y, result |-> After(tk[x], tk[y])]
    /\ UNCHANGED <<tk, nonTicket>>

NextTicket ==
    \/ \E x, y \in 1..3 : CallCmp(x, y)
    \/ \E x, y \in 1..3 : CallAfter(x, y)

SpecTicket == InitTicket /\ [][NextTicket]_vars

\* the Ordering opposite to o
Reverse(o) == IF o = Less THEN Greater ELSE IF o = Greater THEN Less ELSE Equal

\* C19: the ticket order is a strict total order: cmp(a, b) is exactly one of
\* Less, Equal and Greater, it is the reverse of cmp(b, a), it is Equal iff
\* lamport, actor_id and delimiter are all equal, and it is transitive.
C19_TicketTotalOrder ==
    tkRet.op = "cmp" =>
        LET a == tk[tkRet.x]
            b == tk[tkRet.y]
        IN  /\ tkRet.result \in {Less, Equal, Greater}
            /\ TicketCmp(b, a) = Reverse(tkRet.result)
            /\ tkRet.result = Equal <=>
                 /\ a.lamport = b.lamport
                 /\ a.actor_id = b.actor_id
                 /\ a.delimiter = b.delimiter
            /\ \A z \in 1..3 :
                 /\ (tkRet.result = Less /\ TicketCmp(b, tk[z]) = Less) =>
                        TicketCmp(a, tk[z]) = Less
                 /\ (tkRet.result = Equal /\ TicketCmp(b, tk[z]) = Equal) =>
                        TicketCmp(a, tk[z]) = Equal

\* C19 witness: a cmp of two different tickets returned Less, and the second
\* is below the third ticket.
C19_Witness ==
    /\ tkRet.op = "cmp"
    /\ tkRet.result = Less
    /\ tk[tkRet.x] # tk[tkRet.y]
    /\ \E z \in 1..3 : TicketCmp(tk[tkRet.y], tk[z]) = Less

\* the first of the 12 bytes at which two different actor ids differ
FirstDifference(a, b) ==
    CHOOSE i \in 1..12 : a[i] # b[i] /\ \A j \in 1..(i - 1) : a[j] = b[j]

\* C20: cmp compares lamport first, then actor_id (by the first of the 12
\* bytes that differs), then delimiter; a.after(b) is true iff a.cmp(b) is
\* Greater, so that a.after(a) is false and a.after(b), b.after(a) are never
\* both true.
C20_CmpOrderAndAfter ==
    LET a == tk[tkRet.x]
        b == tk[tkRet.y]
    IN  /\ tkRet.op = "cmp" =>
             tkRet.result =
                 IF a.lamport # b.lamport
                 THEN (IF a.lamport < b.lamport THEN Less ELSE Greater)
                 ELSE IF a.actor_id # b.actor_id
                      THEN (LET i == FirstDifference(a.actor_id, b.actor_id)
                            IN  IF a.actor_id[i] < b.actor_id[i] THEN Less ELSE Greater)
                      ELSE IF a.delimiter # b.delimiter
                           THEN (IF a.delimiter < b.delimiter THEN Less ELSE Greater)
                           ELSE Equal
        /\ tkRet.op = "after" =>
             /\ tkRet.result <=> TicketCmp(a, b) = Greater
             /\ a = b => ~tkRet.result
             /\ ~(tkRet.result /\ After(b, a))

\* C20 witness: a cmp returned Less for two tickets of the same lamport
\* although the first has the greater delimiter: the actor_id decided, by its
\* first byte although the second byte is the other way round.
C20_Witness ==
    /\ tkRet.op = "cmp"
    /\ tkRet.result = Less
    /\ tk[tkRet.x].lamport = tk[tkRet.y].lamport
    /\ tk[tkRet.x].delimiter > tk[tkRet.y].delimiter
    /\ tk[tkRet.x].actor_id[1] < tk[tkRet.y].actor_id[1]
    /\ tk[tkRet.x].actor_id[2] > tk[tkRet.y].actor_id[2]

----------------------------------------------------------------------------
(* An element and its deep copies, mutated through the handles the caller  *)
(* holds: SpecElement.                                                     *)

\* the variables the Element actions leave alone
nonElement ==
    <<rht, ret, ops, applied, rhtReplica, pq, pqRet, pqReplica, tk, tkRet,
      llrbVars, splayVars, keyVars, cliVars>>

InitElement ==
    /\ steps = 0
    /\ rht = NewRHT
    /\ ret = NoCall
    /\ ops = {}
    /\ applied = [r \in Replicas |-> {}]
    /\ rhtReplica = [r \in Replicas |-> NewRHT]
    /\ pq = NewPQ
    /\ pqRet = NoCall
    /\ pqReplica = [r \in Replicas |-> NewPQ]
    /\ tk = NoTickets
    /\ tkRet = NoCall
    /\ IdleLLRB
    /\ IdleSplay
    /\ IdleKey
    /\ IdleClient
    /\ \E e \in Elements : elems = MapPut(EmptyMap, FreshAddr(EmptyMap), e)
    /\ handles = <<FreshAddr(EmptyMap)>>
    /\ elRet = NoCall

\* the element of handle h .remove(ticket)
CallElementRemove(h, ticket) ==
    /\ steps < MaxElementSteps
    /\ steps' = steps + 1
    /\ elems' = [elems EXCEPT ![handles[h]] = ElementRemove(@, ticket)]
    /\ elRet' = [op |-> "remove", handle |-> h, ticket |-> ticket,
                 result |-> ElementRemoveResult(elems[handles[h]], ticket)]
    /\ UNCHANGED <<handles, nonElement>>

\* the element of handle h .set_moved_at(ticket)
CallElementSetMovedAt(h, ticket) ==
    /\ steps < MaxElementSteps
    /\ steps' = steps + 1
    /\ elems' = [elems EXCEPT ![handles[h]] = ElementSetMovedAt(@, ticket)]
    /\ elRet' = [op |-> "set_moved_at", handle |-> h, ticket |-> ticket]
    /\ UNCHANGED <<handles, nonElement>>

\* the element of handle h .deepcopy(): the caller holds one more element
CallElementDeepcopy(h) ==
    /\ steps < MaxElementSteps
    /\ Len(handles) < MaxHandles
    /\ steps' = steps + 1
    /\ LET addr == DeepcopyAddr(elems, handles[h])
       IN  /\ elems' = MapPut(elems, addr, ElementClone(elems[handles[h]]))
           /\ handles' = Append(handles, addr)
    /\ elRet' = [op |-> "deepcopy", handle |-> h, result |-> Len(handles) + 1]
    /\ UNCHANGED nonElement

NextElement ==
    \/ \E h \in DOMAIN handles, t \in Tickets : CallElementRemove(h, t)
    \/ \E h \in DOMAIN handles, t \in Tickets : CallElementSetMovedAt(h, t)
    \/ \E h \in DOMAIN handles : CallElementDeepcopy(h)

SpecElement == InitElement /\ [][NextElement]_vars

IsElementCall(name) == elRet'.op = name /\ steps' = steps + 1

\* the element the caller sees through handle h
Held(h) == elems[handles[h]]
\* the same after the step
HeldNext(h) == elems'[handles'[h]]

\* C21: remove(ticket) sets removed_at to ticket and returns true iff ticket
\* is after created_at and after the existing tombstone, if any; otherwise it
\* returns false and leaves the element unchanged. Over every call removed_at,
\* once set, stays set and never moves to an earlier ticket, and a remove
\* repeated with the same ticket changes nothing.
C21_ElementRemove ==
    [][/\ IsElementCall("remove") =>
            LET e == Held(elRet'.handle)
                t == elRet'.ticket
                ok == /\ TicketCmp(t, e.created_at) = Greater
                      /\ e.removed_at # None => TicketCmp(t, e.removed_at[1]) = Greater
            IN  /\ elRet'.result = ok
                /\ ok => HeldNext(elRet'.handle) = [e EXCEPT !.removed_at = <<t>>]
                /\ ~ok => HeldNext(elRet'.handle) = e
                /\ (elRet.op = "remove" /\ elRet.handle = elRet'.handle
                        /\ elRet.ticket = t) =>
                       (~elRet'.result /\ elems' = elems)
       /\ \A h \in DOMAIN handles :
            Held(h).removed_at # None =>
                /\ HeldNext(h).removed_at # None
                /\ TicketCmp(HeldNext(h).removed_at[1], Held(h).removed_at[1]) # Less]_vars

\* C21 witness: a remove was refused on an element that is tombstoned at a
\* later ticket and stays so.
C21_Witness ==
    /\ elRet.op = "remove"
    /\ ~elRet.result
    /\ Held(elRet.handle).removed_at # None
    /\ TicketCmp(Held(elRet.handle).removed_at[1], elRet.ticket) = Greater
    /\ TicketCmp(elRet.ticket, Held(elRet.handle).created_at) = Greater

----------------------------------------------------------------------------
(* One llrb::Tree driven by arbitrary calls: SpecLLRB.                     *)

\* the keys inserted and removed, and the keys looked up
LLRBKeys == {0, 1, 4, 7}
FloorKeys == LLRBKeys \cup {2, 8}

\* a case of test::keeping_order: the order its ten keys are inserted in
KeepingOrderCase == <<7, 2, 0, 3, 1, 9, 8, 4, 6, 5>>

\* the keys test::floor inserts, in its order
FloorCase == <<2, 4, 1>>

\* the values a key is inserted with
LLRBValues(key) == {key, key + 10}

\* the variables the llrb::Tree actions leave alone
nonLLRB ==
    <<rht, ret, ops, applied, rhtReplica, pq, pqRet, pqReplica, tk, tkRet,
      elemVars, splayVars, keyVars, cliVars>>

InitLLRB ==
    /\ steps = 0
    /\ rht = NewRHT
    /\ ret = NoCall
    /\ ops = {}
    /\ applied = [r \in Replicas |-> {}]
    /\ rhtReplica = [r \in Replicas |-> NewRHT]
    /\ pq = NewPQ
    /\ pqRet = NoCall
    /\ pqReplica = [r \in Replicas |-> NewPQ]
    /\ tk = NoTickets
    /\ tkRet = NoCall
    /\ IdleElement
    /\ IdleSplay
    /\ IdleKey
    /\ IdleClient
    /\ llrb \in {NewLLRB, LLRBLoad(NewLLRB, KeepingOrderCase), LLRBLoad(NewLLRB, FloorCase)}
    /\ llrbRet = NoCall

\* a panic unwinds out of the caller: no call follows it
LLRBPanicked == llrbRet.op # "none" /\ llrbRet.panic

CallLLRBInsert(key, value) ==
    /\ ~LLRBPanicked
    /\ steps < MaxLLRBSteps
    /\ steps' = steps + 1
    /\ llrb' = LLRBInsert(llrb, key, value)
    /\ llrbRet' = [op |-> "insert", key |-> key, value |-> value, panic |-> FALSE]
    /\ UNCHANGED nonLLRB

CallLLRBRemove(key) ==
    /\ ~LLRBPanicked
    /\ steps < MaxLLRBSteps
    /\ steps' = steps + 1
    /\ llrb' = LLRBRemove(llrb, key)
    /\ llrbRet' = [op |-> "remove", key |-> key, panic |-> LLRBRemovePanics(llrb, key)]
    /\ UNCHANGED nonLLRB

CallLLRBToString ==
    /\ ~LLRBPanicked
    /\ steps < MaxLLRBSteps
    /\ steps' = steps + 1
    /\ llrbRet' = [op |-> "to_string", result |-> LLRBToString(llrb), panic |-> FALSE]
    /\ UNCHANGED <<llrb, nonLLRB>>

CallLLRBFloor(key) ==
    /\ ~LLRBPanicked
    /\ steps < MaxLLRBSteps
    /\ steps' = steps + 1
    /\ llrb' = [llrb EXCEPT !.nodes = LLRBFloor(llrb, key).nodes]
    /\ llrbRet' = [op |-> "floor", key |-> key, result |-> LLRBFloor(llrb, key).result,
                   panic |-> LLRBFloor(llrb, key).panic]
    /\ UNCHANGED nonLLRB

NextLLRB ==
    \/ \E k \in LLRBKeys : \E v \in LLRBValues(k) : CallLLRBInsert(k, v)
    \/ \E k \in LLRBKeys : CallLLRBRemove(k)
    \/ CallLLRBToString
    \/ \E k \in FloorKeys : CallLLRBFloor(k)

SpecLLRB == InitLLRB /\ [][NextLLRB]_vars

IsLLRBCall(name) == llrbRet'.op = name /\ steps' = steps + 1

\* the number of black nodes on every path from node down to a nil child
RECURSIVE BlackHeights(_, _)
BlackHeights(h, node) ==
    IF node = None
    THEN {0}
    ELSE LET n == node[1]
             own == IF h[n].is_red THEN 0 ELSE 1
         IN  {own + b : b \in BlackHeights(h, h[n].left) \cup BlackHeights(h, h[n].right)}

\* the nodes of the tree
TreeNodes(t) == {InOrder(t.nodes, t.root)[i] : i \in 1..Len(InOrder(t.nodes, t.root))}

\* the keys of the tree, in order
InOrderKeys(t) ==
    [i \in 1..Len(InOrder(t.nodes, t.root)) |-> t.nodes[InOrder(t.nodes, t.root)[i]].key]

\* C23: after any sequence of insert and remove calls, every path from the
\* root to a nil child has the same number of black nodes.
C23_Balanced ==
    ~LLRBPanicked => Cardinality(BlackHeights(llrb.nodes, llrb.root)) = 1

\* C24: after any sequence of insert and remove calls, no node has a red
\* right child.
C24_LeftLeaning ==
    ~LLRBPanicked =>
        \A n \in TreeNodes(llrb) :
            llrb.nodes[n].right # None => ~llrb.nodes[llrb.nodes[n].right[1]].is_red

\* C25: after any sequence of insert and remove calls, no red node, the root
\* included, has a red child.
C25_NoDoubleRed ==
    ~LLRBPanicked =>
        \A n \in TreeNodes(llrb) :
            llrb.nodes[n].is_red =>
                /\ llrb.nodes[n].left # None => ~llrb.nodes[llrb.nodes[n].left[1]].is_red
                /\ llrb.nodes[n].right # None => ~llrb.nodes[llrb.nodes[n].right[1]].is_red

\* C27: after every insert returns, the root node is black.
C27_RootBlackAfterInsert ==
    llrbRet.op = "insert" => ~llrb.nodes[llrb.root[1]].is_red

\* the keys stored in the tree
StoredKeys(t) == {t.nodes[n].key : n \in TreeNodes(t)}

\* a sequence of keys in strictly ascending order
Ascending(keys) == \A i, j \in 1..Len(keys) : i < j => KeyCmp(keys[i], keys[j]) = Less

\* the stored values in ascending order of their keys, rendered and joined
RenderedInKeyOrder(t) ==
    LET order == SortSeq(InOrder(t.nodes, t.root),
                         LAMBDA a, b : KeyCmp(t.nodes[a].key, t.nodes[b].key) = Less)
    IN  Join([i \in 1..Len(order) |-> DecimalString(t.nodes[order[i]].value)])

\* C26: over insert calls and remove calls of present keys the in-order
\* traversal stays strictly ascending by key and holds exactly the keys
\* inserted and not removed since: an insert adds its key and no other, a
\* remove of a stored key returns and drops that key and no other, and
\* to_string renders the stored entries in ascending key order.
C26_OrderAndContent ==
    [][/\ IsLLRBCall("insert") =>
              /\ Ascending(InOrderKeys(llrb'))
              /\ StoredKeys(llrb') = StoredKeys(llrb) \cup {llrbRet'.key}
       /\ IsLLRBCall("remove") /\ llrbRet'.key \in StoredKeys(llrb) =>
              /\ ~llrbRet'.panic
              /\ Ascending(InOrderKeys(llrb'))
              /\ StoredKeys(llrb') = StoredKeys(llrb) \ {llrbRet'.key}
       /\ IsLLRBCall("to_string") =>
              /\ Ascending(InOrderKeys(llrb))
              /\ llrbRet'.result = RenderedInKeyOrder(llrb)]_vars

\* the entry with the greatest stored key that is not above key, if any
GreatestNotAbove(t, key) ==
    LET below == {n \in TreeNodes(t) : KeyCmp(t.nodes[n].key, key) # Greater}
    IN  IF below = {}
        THEN None
        ELSE LET n == CHOOSE a \in below :
                          \A b \in below : KeyCmp(t.nodes[b].key, t.nodes[a].key) # Greater
             IN  Some(<<t.nodes[n].key, t.nodes[n].value>>)

\* C28: floor(key) returns the entry with the greatest stored key that is
\* less than or equal to key, and None when the tree is empty or every
\* stored key is greater than key.
C28_Floor ==
    llrbRet.op = "floor" =>
        /\ ~llrbRet.panic
        /\ llrbRet.result = GreatestNotAbove(llrb, llrbRet.key)

\* C29: insert(key, value) with a key already in the tree replaces the value
\* of that key's node in place: the keys in order, the node count and size
\* are unchanged, the node of the key holds the new value and every other
\* node keeps its value.
C29_InsertReplacesInPlace ==
    [][IsLLRBCall("insert") /\ llrbRet'.key \in StoredKeys(llrb) =>
           /\ InOrderKeys(llrb') = InOrderKeys(llrb)
           /\ TreeNodes(llrb') = TreeNodes(llrb)
           /\ llrb'.size = llrb.size
           /\ \A n \in TreeNodes(llrb) :
                  /\ llrb'.nodes[n].key = llrb.nodes[n].key
                  /\ llrb'.nodes[n].value =
                         IF llrb.nodes[n].key = llrbRet'.key
                         THEN llrbRet'.value
                         ELSE llrb.nodes[n].value]_vars

\* the first call on the ten-key tree is an insert of a stored key with a
\* value it did not hold: the tree still has ten nodes and holds the value
C29_Witness ==
    /\ steps = 1
    /\ llrbRet.op = "insert"
    /\ llrbRet.value # llrbRet.key
    /\ llrb.size = Len(KeepingOrderCase)
    /\ Cardinality(TreeNodes(llrb)) = Len(KeepingOrderCase)
    /\ \E n \in TreeNodes(llrb) :
           llrb.nodes[n].key = llrbRet.key /\ llrb.nodes[n].value = llrbRet.value

----------------------------------------------------------------------------
(* One splay::Tree driven by arbitrary calls: SpecSplay.                   *)

\* the values of the nodes: strings of length 0, 1 and 2
SplayValues == {EmptyString, <<97>>, <<97, 98>>}

\* the weights from node n up to the root, recomputed bottom-up
RECURSIVE UpdateUp(_, _)
UpdateUp(h, n) ==
    LET h1 == UpdateSubtree(h, n)
    IN  IF h1[n].parent = None THEN h1 ELSE UpdateUp(h1, Unwrap(h1[n].parent))

\* a tree with one more node: a new node linked as the missing left or right
\* child of node p, the weights above it brought up to date
SplayAttach(t, p, asLeft, value) ==
    LET addr == FreshAddr(t.nodes)
        h1 == MapPut(t.nodes, addr, [SplayNodeNew(value) EXCEPT !.parent = Some(p)])
        h2 == IF asLeft
              THEN [h1 EXCEPT ![p].left = Some(addr)]
              ELSE [h1 EXCEPT ![p].right = Some(addr)]
    IN  [t EXCEPT !.nodes = UpdateUp(h2, p)]

\* the linked trees of n nodes: the inputs of the calls
RECURSIVE SplayTrees(_)
SplayTrees(n) ==
    IF n = 1
    THEN {SplayTreeNew(v) : v \in SplayValues}
    ELSE UNION {{SplayAttach(t, p, TRUE, v) : v \in SplayValues, p \in
                     {q \in DOMAIN t.nodes : t.nodes[q].left = None}}
                \cup {SplayAttach(t, p, FALSE, v) : v \in SplayValues, p \in
                     {q \in DOMAIN t.nodes : t.nodes[q].right = None}}
                : t \in SplayTrees(n - 1)}

\* the variables the splay::Tree actions leave alone
nonSplay ==
    <<rht, ret, ops, applied, rhtReplica, pq, pqRet, pqReplica, tk, tkRet,
      elemVars, llrbVars, keyVars, cliVars>>

InitSplay ==
    /\ steps = 0
    /\ rht = NewRHT
    /\ ret = NoCall
    /\ ops = {}
    /\ applied = [r \in Replicas |-> {}]
    /\ rhtReplica = [r \in Replicas |-> NewRHT]
    /\ pq = NewPQ
    /\ pqRet = NoCall
    /\ pqReplica = [r \in Replicas |-> NewPQ]
    /\ tk = NoTickets
    /\ tkRet = NoCall
    /\ IdleElement
    /\ IdleLLRB
    /\ splay \in UNION {SplayTrees(n) : n \in 1..MaxSplayNodes}
    /\ splayRet = NoCall
    /\ IdleKey
    /\ IdleClient

\* a panic unwinds out of the caller: no call follows it
SplayPanicked == splayRet.op # "none" /\ splayRet.panic

CallSplayRotateLeft(pivot) ==
    /\ ~SplayPanicked
    /\ steps < MaxSplaySteps
    /\ steps' = steps + 1
    /\ splay' = SplayRotateLeft(splay, pivot).tree
    /\ splayRet' = [op |-> "rotate_left", node |-> pivot,
                    panic |-> SplayRotateLeft(splay, pivot).panic]
    /\ UNCHANGED nonSplay

CallSplayRotateRight(pivot) ==
    /\ ~SplayPanicked
    /\ steps < MaxSplaySteps
    /\ steps' = steps + 1
    /\ splay' = SplayRotateRight(splay, pivot).tree
    /\ splayRet' = [op |-> "rotate_right", node |-> pivot,
                    panic |-> SplayRotateRight(splay, pivot).panic]
    /\ UNCHANGED nonSplay

CallSplaySplay(node) ==
    /\ ~SplayPanicked
    /\ steps < MaxSplaySteps
    /\ steps' = steps + 1
    /\ splay' = SplaySplay(splay, node).tree
    /\ splayRet' = [op |-> "splay", node |-> node, panic |-> SplaySplay(splay, node).panic]
    /\ UNCHANGED nonSplay

CallSplayUpdateSubtree(node) ==
    /\ ~SplayPanicked
    /\ steps < MaxSplaySteps
    /\ steps' = steps + 1
    /\ splay' = [splay EXCEPT !.nodes = UpdateSubtree(splay.nodes, node)]
    /\ splayRet' = [op |-> "update_subtree", node |-> node, panic |-> FALSE]
    /\ UNCHANGED nonSplay

NextSplay ==
    \/ \E n \in DOMAIN splay.nodes : CallSplayRotateLeft(n)
    \/ \E n \in DOMAIN splay.nodes : CallSplayRotateRight(n)
    \/ \E n \in DOMAIN splay.nodes : CallSplaySplay(n)
    \/ \E n \in DOMAIN splay.nodes : CallSplayUpdateSubtree(n)

SpecSplay == InitSplay /\ [][NextSplay]_vars

\* the weight of node n is the length of its value plus the weights of its
\* children, a missing child counting 0
WeightHolds(h, n) == h[n].weight = Len(h[n].value) + LeftWeight(h, n) + RightWeight(h, n)

IsSplayCall(name) == splayRet'.op = name /\ steps' = steps + 1

C31_SplayToRoot ==
    splayRet.op = "splay" =>
        /\ ~splayRet.panic
        /\ splay.root = Some(splayRet.node)
        /\ splay.nodes[splayRet.node].parent = None

\* the nodes below node, left to right
RECURSIVE SplayInOrder(_, _)
SplayInOrder(h, node) ==
    IF node = None
    THEN <<>>
    ELSE SplayInOrder(h, h[Unwrap(node)].left) \o <<Unwrap(node)>>
         \o SplayInOrder(h, h[Unwrap(node)].right)

\* the sum of the lengths of the values of the nodes in order
RECURSIVE SumOfLengths(_, _)
SumOfLengths(h, order) ==
    IF order = <<>> THEN 0 ELSE Len(h[Head(order)].value) + SumOfLengths(h, Tail(order))

\* every child's parent link points to the node that holds it, and the root
\* has no parent
ParentLinksHold(t) ==
    /\ t.nodes[Unwrap(t.root)].parent = None
    /\ \A n \in DOMAIN t.nodes :
           /\ t.nodes[n].left # None => t.nodes[Unwrap(t.nodes[n].left)].parent = Some(n)
           /\ t.nodes[n].right # None => t.nodes[Unwrap(t.nodes[n].right)].parent = Some(n)

C36_FloorReturnsStored ==
    (llrbRet.op = "floor" /\ ~llrbRet.panic /\ llrbRet.result # None) =>
        \E n \in TreeNodes(llrb) :
            Unwrap(llrbRet.result) = <<llrb.nodes[n].key, llrb.nodes[n].value>>

\* the (key, value) pairs of the tree, in key order
InOrderEntries(t) ==
    [i \in 1..Len(InOrder(t.nodes, t.root)) |->
        <<t.nodes[InOrder(t.nodes, t.root)[i]].key,
          t.nodes[InOrder(t.nodes, t.root)[i]].value>>]

\* C37: remove(key) with a key that is not in the tree, on an empty or a
\* non-empty tree, completes without failure and leaves the keys, values and
\* size of the tree unchanged.
C37_RemoveAbsentKey ==
    [][IsLLRBCall("remove") /\ llrbRet'.key \notin StoredKeys(llrb) =>
           /\ ~llrbRet'.panic
           /\ InOrderEntries(llrb') = InOrderEntries(llrb)
           /\ llrb'.size = llrb.size]_vars

\* what a caller can observe of a map: get and has of every key, elements(),
\* the creation tickets that are tracked and the number of entries queued
\* under every key
PQObservation(m) ==
    [get |-> [k \in LookupKeys |-> PQGet(m, k)],
     has |-> [k \in LookupKeys |-> PQHas(m, k)],
     elements |-> PQElements(m),
     tracked |-> DOMAIN m.node_map_by_created_at,
     queued |-> [k \in DOMAIN m.node_queue_map_by_key |->
                    Len(m.node_queue_map_by_key[k])]]

\* the call that just returned repeats the call before it
PQReplayed(name, args) ==
    /\ IsPQCall(name)
    /\ pqRet.op = name
    /\ \A f \in args : pqRet'[f] = pqRet[f]

\* C34: replay is idempotent. Applying the same set(key, element), the same
\* delete(key, t) or the same delete_by_created_at(c, t) a second time leaves
\* get, has, elements and the tracked entries as they were after the first
\* application, and creates no duplicate entry.
C34_ReplayIdempotent ==
    [][(\/ PQReplayed("set", {"key", "value"})
        \/ PQReplayed("delete", {"key", "at"})
        \/ PQReplayed("delete_by_created_at", {"created_at", "at"}))
       => PQObservation(pq') = PQObservation(pq)]_vars

\* set(k, e) was called twice on an empty map: e is queued and tracked once,
\* live, and the second call displaced nothing
C34_Witness ==
    /\ steps = 2
    /\ pqRet.op = "set"
    /\ pqRet.result = None
    /\ PQGet(pq, pqRet.key) = Some(pqRet.value)
    /\ DOMAIN pq.node_map_by_created_at = {pqRet.value.created_at}
    /\ PQObservation(pq).queued = (pqRet.key :> 1)
    /\ PQObservation(PQSet(pq, pqRet.key, pqRet.value)) = PQObservation(pq)

\* C35: in every reachable table there is one entry per inserted key and no
\* superseded entry is retained: node_map_by_key and node_map_by_created_at
\* hold the same entries, every entry filed under its own key and its own
\* updated_at, also when two keys were inserted with the same ticket.
C35_IndexesAgree ==
    /\ Range(rht.node_map_by_key) = Range(rht.node_map_by_created_at)
    /\ DOMAIN rht.nodes = Range(rht.node_map_by_key)
    /\ \A k \in DOMAIN rht.node_map_by_key :
           rht.nodes[rht.node_map_by_key[k]].key = k
    /\ \A c \in DOMAIN rht.node_map_by_created_at :
           rht.nodes[rht.node_map_by_created_at[c]].updated_at = c

\* C40: clone() yields a table observationally equal to its source: get(k)
\* and has(k) on the clone equal those on the source for every key k, also
\* for the keys that were removed (the tombstones are carried over).
C40_CloneObservablyEqual ==
    ret.op = "clone" =>
        \A k \in LookupKeys :
            /\ RHTGet(ret.result, k) = RHTGet(rht, k)
            /\ RHTHas(ret.result, k) = RHTHas(rht, k)

----------------------------------------------------------------------------
(* Key driven by arbitrary calls: SpecKey.                                 *)

\* the bytes of a combined key: the separator and two others
KeyBytes == {36, 97, 98}       \* "$", "a", "b"

\* every string of at most MaxKeyLen of these bytes
CombinedKeys == UNION {[1..n -> KeyBytes] : n \in 0..MaxKeyLen}

\* the variables the Key actions leave alone
nonKey ==
    <<rht, ret, ops, applied, rhtReplica, pq, pqRet, pqReplica, tk, tkRet,
      elemVars, llrbVars, splayVars, cliVars>>

InitKey ==
    /\ steps = 0
    /\ rht = NewRHT
    /\ ret = NoCall
    /\ InitOthers

CallFromCombinedKey(combined_key) ==
    /\ steps < MaxKeySteps
    /\ steps' = steps + 1
    /\ docKey' = IF FromCombinedKey(combined_key).ok
                 THEN Some(FromCombinedKey(combined_key).key)
                 ELSE docKey
    /\ keyRet' = [op |-> "from_combined_key", combined_key |-> combined_key,
                  result |-> FromCombinedKey(combined_key)]
    /\ UNCHANGED nonKey

CallCombinedKey ==
    /\ steps < MaxKeySteps
    /\ steps' = steps + 1
    /\ docKey # None
    /\ keyRet' = [op |-> "combined_key", result |-> CombinedKey(Unwrap(docKey))]
    /\ UNCHANGED <<docKey, nonKey>>

NextKey ==
    \/ \E combined_key \in CombinedKeys : CallFromCombinedKey(combined_key)
    \/ CallCombinedKey

SpecKey == InitKey /\ [][NextKey]_vars

\* the positions of the separator byte in s
SeparatorsAt(s) == {i \in 1..Len(s) : s[i] = 36}

\* C32: from_combined_key(s) fails with InvalidCombinedKeyError unless s
\* holds exactly one "$"; when it succeeds, collection is the part of s before
\* the separator, document the part after it, and combined_key() of the key
\* is s again.
C32_CombinedKeyRoundTrip ==
    /\ keyRet.op = "from_combined_key" =>
           LET s == keyRet.combined_key
               at == SeparatorsAt(s)
           IN  IF Cardinality(at) = 1
               THEN /\ keyRet.result.ok
                    /\ \A i \in at :
                          /\ keyRet.result.key.collection = SubSeq(s, 1, i - 1)
                          /\ keyRet.result.key.document = SubSeq(s, i + 1, Len(s))
                    /\ docKey = Some(keyRet.result.key)
                    /\ CombinedKey(Unwrap(docKey)) = s
               ELSE keyRet.result = [ok |-> FALSE, err |-> "InvalidCombinedKeyError"]
    /\ keyRet.op = "combined_key" =>
           /\ Cardinality(SeparatorsAt(keyRet.result)) = 1
           /\ FromCombinedKey(keyRet.result) = [ok |-> TRUE, key |-> Unwrap(docKey)]

\* a key was parsed from "a$b" and combined_key() returned "a$b"
C32_Witness ==
    /\ steps = 2
    /\ keyRet.op = "combined_key"
    /\ keyRet.result = <<97, 36, 98>>
    /\ docKey = Some([collection |-> <<97>>, document |-> <<98>>])

----------------------------------------------------------------------------
(* One Client driven by arbitrary calls against a server that may refuse   *)
(* the connection or the request: SpecClient.                              *)

RpcAddresses == {"http://[::1]:11101"}

\* two keys as Uuid::new_v4().to_hyphenated() may draw them
Uuid(digit) == [i \in 1..UuidLen |-> IF i \in {9, 14, 19, 24} THEN 45 ELSE digit]
Uuids == {Uuid(48), Uuid(49)}

\* the options of client_with_options_test: key "test"
TestOptions ==
    [key |-> <<116, 101, 115, 116>>, sync_loop_duration |-> 50,
     reconnect_stream_delay |-> 1000]

\* the client ids the server may hand out
ClientIds == {<<1>>, <<2>>}

\* what the server may do with one call: refuse the connection, answer the
\* request with an error status, or answer it (activate_client with an id)
ServerOutcomes ==
    {[connect |-> FALSE, response |-> None]}
    \cup {[connect |-> TRUE, response |-> r] : r \in {None} \cup {Some(id) : id \in ClientIds}}

\* the variables the Client actions leave alone
nonClient ==
    <<rht, ret, ops, applied, rhtReplica, pq, pqRet, pqReplica, tk, tkRet,
      elemVars, llrbVars, splayVars, keyVars>>

InitClient ==
    /\ steps = 0
    /\ rht = NewRHT
    /\ ret = NoCall
    /\ ops = {}
    /\ applied = [r \in Replicas |-> {}]
    /\ rhtReplica = [r \in Replicas |-> NewRHT]
    /\ pq = NewPQ
    /\ pqRet = NoCall
    /\ pqReplica = [r \in Replicas |-> NewPQ]
    /\ tk = NoTickets
    /\ tkRet = NoCall
    /\ IdleElement
    /\ IdleLLRB
    /\ IdleSplay
    /\ IdleKey
    /\ cli \in {ClientNew(a, u) : a \in RpcAddresses, u \in Uuids}
                \cup {ClientWithOptions(a, TestOptions) : a \in RpcAddresses}
    /\ cliRet = NoCall

\* a panic unwinds out of the caller: no call follows it
ClientPanicked == cliRet.op # "none" /\ cliRet.result = "panic"

CallActivate(server) ==
    /\ ~ClientPanicked
    /\ steps < MaxClientSteps
    /\ steps' = steps + 1
    /\ cli' = Activate(cli, server).client
    /\ cliRet' = [op |-> "activate", server |-> server,
                  result |-> Activate(cli, server).result,
                  contacted |-> Activate(cli, server).contacted]
    /\ UNCHANGED nonClient

CallDeactivate(server) ==
    /\ ~ClientPanicked
    /\ steps < MaxClientSteps
    /\ steps' = steps + 1
    /\ cli' = Deactivate(cli, server).client
    /\ cliRet' = [op |-> "deactivate", server |-> server,
                  result |-> Deactivate(cli, server).result,
                  contacted |-> Deactivate(cli, server).contacted]
    /\ UNCHANGED nonClient

NextClient ==
    \/ \E server \in ServerOutcomes : CallActivate(server)
    \/ \E server \in ServerOutcomes : CallDeactivate(server)

SpecClient == InitClient /\ [][NextClient]_vars

IsClientCall(name) == cliRet'.op = name /\ steps' = steps + 1

\* C33: the session lifecycle. A new Client is inactive; a successful
\* activate() leaves is_active true and a successful deactivate() leaves it
\* false; activate() on an active client and deactivate() on an inactive one
\* return Ok without contacting the server and without changing the client.
C33_SessionLifecycle ==
    /\ [](steps = 0 => ~cli.is_active)
    /\ [][/\ (IsClientCall("activate") /\ cliRet'.result = "Ok") => cli'.is_active
          /\ (IsClientCall("deactivate") /\ cliRet'.result = "Ok") => ~cli'.is_active
          /\ (IsClientCall("activate") /\ cli.is_active) =>
                 cliRet'.result = "Ok" /\ ~cliRet'.contacted /\ cli' = cli
          /\ (IsClientCall("deactivate") /\ ~cli.is_active) =>
                 cliRet'.result = "Ok" /\ ~cliRet'.contacted /\ cli' = cli]_vars

\* the second call is an activate() on the client the first call activated:
\* it returned Ok without contacting the server and the client is active
C33_Witness ==
    /\ steps = 2
    /\ cliRet.op = "activate"
    /\ cliRet.result = "Ok"
    /\ ~cliRet.contacted
    /\ cli.is_active
    /\ cli.client_id # None

\* a call whose connection or request the server refused
ServerRefused == ~cliRet'.server.connect \/ cliRet'.server.response = None

\* C39: is_active is true iff client_id is set, in every reachable state; an
\* activate or deactivate whose connection or request fails returns an error
\* and leaves is_active and client_id as they were.
C39_ActiveIffClientId ==
    /\ [](cli.is_active <=> cli.client_id # None)
    /\ [][((IsClientCall("activate") \/ IsClientCall("deactivate"))
            /\ cliRet'.contacted /\ ServerRefused)
          => /\ cliRet'.result \in {"Err(transport)", "Err(status)"}
             /\ cli'.is_active = cli.is_active
             /\ cli'.client_id = cli.client_id]_vars

\* the server answered deactivate_client of an active client with an error
\* status: the call returned the error and the client is still active, with
\* its id
C39_Witness ==
    /\ cliRet.op = "deactivate"
    /\ cliRet.result = "Err(status)"
    /\ cli.is_active
    /\ cli.client_id \in {Some(id) : id \in ClientIds}

=============================================================================
